---- MODULE Spec2Model ----
(***************************************************************************)
(* A model of the hex-again engine: the entity store (EntityManager), the  *)
(* grid cell map (HexGrid), the state protocol (StateManager: capture,     *)
(* checksum, load) and the import handlers of main.js.                     *)
(*                                                                         *)
(* JavaScript values that cross the JSON boundary are modelled as tagged   *)
(* records; JavaScript strings and JSON text are sequences of UTF-16 code  *)
(* units, so that JSON.stringify, JSON.parse and the checksum loop are     *)
(* modelled by what they do to the text.                                   *)
(***************************************************************************)
EXTENDS Integers, Sequences, FiniteSets, TLC

(***************************************************************************)
(* String literals of the program, as UTF-16 code units.                   *)
(***************************************************************************)
Str ==
  [version |-> <<118, 101, 114, 115, 105, 111, 110>>,
   timestamp |-> <<116, 105, 109, 101, 115, 116, 97, 109, 112>>,
   grid |-> <<103, 114, 105, 100>>,
   entities |-> <<101, 110, 116, 105, 116, 105, 101, 115>>,
   turn |-> <<116, 117, 114, 110>>,
   viewport |-> <<118, 105, 101, 119, 112, 111, 114, 116>>,
   checksum |-> <<99, 104, 101, 99, 107, 115, 117, 109>>,
   size |-> <<115, 105, 122, 101>>,
   width |-> <<119, 105, 100, 116, 104>>,
   height |-> <<104, 101, 105, 103, 104, 116>>,
   hexes |-> <<104, 101, 120, 101, 115>>,
   hex |-> <<104, 101, 120>>,
   terrain |-> <<116, 101, 114, 114, 97, 105, 110>>,
   q |-> <<113>>,
   r |-> <<114>>,
   x |-> <<120>>,
   y |-> <<121>>,
   scale |-> <<115, 99, 97, 108, 101>>,
   entityId |-> <<101, 110, 116, 105, 116, 121, 73, 100>>,
   components |-> <<99, 111, 109, 112, 111, 110, 101, 110, 116, 115>>,
   type |-> <<116, 121, 112, 101>>,
   data |-> <<100, 97, 116, 97>>,
   color |-> <<99, 111, 108, 111, 114>>,
   shape |-> <<115, 104, 97, 112, 101>>,
   PositionComponent |-> <<80, 111, 115, 105, 116, 105, 111, 110, 67, 111, 109, 112, 111, 110, 101, 110, 116>>,
   RenderableComponent |-> <<82, 101, 110, 100, 101, 114, 97, 98, 108, 101, 67, 111, 109, 112, 111, 110, 101, 110, 116>>,
   circle |-> <<99, 105, 114, 99, 108, 101>>,
   square |-> <<115, 113, 117, 97, 114, 101>>,
   triangle |-> <<116, 114, 105, 97, 110, 103, 108, 101>>,
   grass |-> <<103, 114, 97, 115, 115>>,
   water |-> <<119, 97, 116, 101, 114>>,
   mountain |-> <<109, 111, 117, 110, 116, 97, 105, 110>>,
   desert |-> <<100, 101, 115, 101, 114, 116>>,
   forest |-> <<102, 111, 114, 101, 115, 116>>,
   v100 |-> <<49, 46, 48, 46, 48>>,
   null_ |-> <<110, 117, 108, 108>>,
   HealthComponent |-> <<72, 101, 97, 108, 116, 104, 67, 111, 109, 112, 111, 110, 101, 110, 116>>]

(***************************************************************************)
(* JavaScript values.  t is the type tag; n the value of a number; s the   *)
(* code units of a string; k the keys of an object, in insertion order;    *)
(* a the elements of an array, or the member values of an object.          *)
(***************************************************************************)
JV(t, n, s, k, a) == [t |-> t, n |-> n, s |-> s, k |-> k, a |-> a]
Undef      == JV("undef", 0, <<>>, <<>>, <<>>)
Null       == JV("null", 0, <<>>, <<>>, <<>>)
Num(n)     == JV("num", n, <<>>, <<>>, <<>>)
JStr(s)    == JV("str", 0, s, <<>>, <<>>)
Arr(a)     == JV("arr", 0, <<>>, <<>>, a)
Obj(k, a)  == JV("obj", 0, <<>>, k, a)

\* The index of key in the key list ks, or 0.
RECURSIVE KeyIndex(_, _, _)
KeyIndex(ks, key, i) ==
  IF i > Len(ks) THEN 0
  ELSE IF ks[i] = key THEN i
  ELSE KeyIndex(ks, key, i + 1)

\* obj.key : the member's value, undefined when the object has no such member.
\* A property read on null or undefined throws; callers test IsNullish first.
Get(obj, key) ==
  IF obj.t # "obj" THEN Undef
  ELSE LET i == KeyIndex(obj.k, key, 1)
       IN  IF i = 0 THEN Undef ELSE obj.a[i]

IsNullish(v) == v.t \in {"undef", "null"}

\* obj[key] = v : an existing member keeps its place, a new one goes last.
Put(obj, key, v) ==
  LET i == KeyIndex(obj.k, key, 1)
  IN  IF i = 0 THEN Obj(Append(obj.k, key), Append(obj.a, v))
      ELSE Obj(obj.k, [obj.a EXCEPT ![i] = v])

\* delete obj[key]
Delete(obj, key) ==
  LET i == KeyIndex(obj.k, key, 1)
      Drop(q) == [j \in 1..(Len(q) - 1) |-> IF j < i THEN q[j] ELSE q[j + 1]]
  IN  IF i = 0 THEN obj ELSE Obj(Drop(obj.k), Drop(obj.a))

(***************************************************************************)
(* JSON.stringify(value, null, gap): gap = 0 is the compact form, gap = 2  *)
(* the pretty-printed form of exportState and of the state viewer.         *)
(***************************************************************************)
RECURSIVE Digits(_)
Digits(n) ==
  IF n < 10 THEN <<48 + n>> ELSE Append(Digits(n \div 10), 48 + (n % 10))

NumText(n) == IF n < 0 THEN <<45>> \o Digits(0 - n) ELSE Digits(n)

\* A string in double quotes, with the quote and the backslash escaped.
RECURSIVE Escape(_, _)
Escape(s, i) ==
  IF i > Len(s) THEN <<>>
  ELSE (IF s[i] \in {34, 92} THEN <<92, s[i]>> ELSE <<s[i]>>) \o Escape(s, i + 1)

Quote(s) == <<34>> \o Escape(s, 1) \o <<34>>

Spaces(n) == [i \in 1..n |-> 32]

\* What follows an opening bracket, separates two items, precedes the closing one.
Open(gap, level)  == IF gap = 0 THEN <<>> ELSE <<10>> \o Spaces(gap * (level + 1))
Sep(gap, level)   == IF gap = 0 THEN <<44>> ELSE <<44, 10>> \o Spaces(gap * (level + 1))
Close(gap, level) == IF gap = 0 THEN <<>> ELSE <<10>> \o Spaces(gap * level)
Colon(gap)        == IF gap = 0 THEN <<58>> ELSE <<58, 32>>

\* The indices of the members of an object that are serialized: undefined ones are left out.
Present(obj) == SelectSeq([i \in 1..Len(obj.a) |-> i], LAMBDA i : obj.a[i].t # "undef")

RECURSIVE Ser(_, _, _)
RECURSIVE SerElems(_, _, _, _)
RECURSIVE SerMembers(_, _, _, _, _)

Ser(v, gap, level) ==
  CASE v.t = "num"   -> NumText(v.n)
    [] v.t = "str"   -> Quote(v.s)
    [] v.t = "bool"  -> IF v.n = 1 THEN <<116, 114, 117, 101>> ELSE <<102, 97, 108, 115, 101>>
    [] v.t = "arr"   -> IF Len(v.a) = 0 THEN <<91, 93>>
                        ELSE <<91>> \o Open(gap, level) \o SerElems(v.a, 1, gap, level)
                             \o Close(gap, level) \o <<93>>
    [] v.t = "obj"   -> IF Len(Present(v)) = 0 THEN <<123, 125>>
                        ELSE <<123>> \o Open(gap, level) \o SerMembers(v, Present(v), 1, gap, level)
                             \o Close(gap, level) \o <<125>>
    [] OTHER         -> Str.null_

\* The elements of an array from the i-th on; an undefined element is written null.
SerElems(a, i, gap, level) ==
  LET e == Ser(a[i], gap, level + 1)
  IN  IF i = Len(a) THEN e ELSE e \o Sep(gap, level) \o SerElems(a, i + 1, gap, level)

\* The members of obj listed in idx, from the i-th on.
SerMembers(obj, idx, i, gap, level) ==
  LET m == Quote(obj.k[idx[i]]) \o Colon(gap) \o Ser(obj.a[idx[i]], gap, level + 1)
  IN  IF i = Len(idx) THEN m ELSE m \o Sep(gap, level) \o SerMembers(obj, idx, i + 1, gap, level)

Stringify(v, gap) == Ser(v, gap, 0)

(***************************************************************************)
(* JSON.parse(text).  A result is [ok, v, i]: whether a value was read, the*)
(* value, and the index after it.  ok = FALSE is the SyntaxError.  Numbers *)
(* are integers: every number of a snapshot of this model is one.          *)
(***************************************************************************)
Bool(b) == JV("bool", IF b THEN 1 ELSE 0, <<>>, <<>>, <<>>)
PFail      == [ok |-> FALSE, v |-> Undef, i |-> 0]
POk(v, i)  == [ok |-> TRUE, v |-> v, i |-> i]

IsWs(c)    == c \in {9, 10, 13, 32}
IsDigit(c) == c \in 48..57

RECURSIVE SkipWs(_, _)
SkipWs(tx, i) == IF i <= Len(tx) /\ IsWs(tx[i]) THEN SkipWs(tx, i + 1) ELSE i

\* tx has the code units lit at index i.
Matches(tx, i, lit) ==
  /\ i + Len(lit) - 1 <= Len(tx)
  /\ \A j \in 1..Len(lit) : tx[i + j - 1] = lit[j]

RECURSIVE PDigits(_, _, _)
PDigits(tx, i, acc) ==
  IF i <= Len(tx) /\ IsDigit(tx[i]) THEN PDigits(tx, i + 1, acc * 10 + (tx[i] - 48))
  ELSE POk(Num(acc), i)

PNumber(tx, i) ==
  LET neg == tx[i] = 45
      j   == IF neg THEN i + 1 ELSE i
      d   == PDigits(tx, j, 0)
  IN  IF j > Len(tx) \/ ~IsDigit(tx[j]) THEN PFail
      ELSE IF tx[j] = 48 /\ d.i > j + 1 THEN PFail            \* a leading zero
      ELSE IF d.i <= Len(tx) /\ tx[d.i] \in {46, 69, 101} THEN PFail  \* no fractions here
      ELSE POk(Num(IF neg THEN 0 - d.v.n ELSE d.v.n), d.i)

\* The characters of a string after its opening quote.
RECURSIVE PChars(_, _, _)
PChars(tx, i, acc) ==
  IF i > Len(tx) THEN PFail
  ELSE IF tx[i] = 34 THEN POk(JStr(acc), i + 1)
  ELSE IF tx[i] < 32 THEN PFail
  ELSE IF tx[i] = 92
       THEN IF i + 1 <= Len(tx) /\ tx[i + 1] \in {34, 47, 92}
            THEN PChars(tx, i + 2, Append(acc, tx[i + 1]))
            ELSE PFail
  ELSE PChars(tx, i + 1, Append(acc, tx[i]))

RECURSIVE PValue(_, _)
RECURSIVE PArr(_, _, _)
RECURSIVE PObj(_, _, _)

PValue(tx, i0) ==
  LET i == SkipWs(tx, i0)
  IN  IF i > Len(tx) THEN PFail
      ELSE CASE tx[i] = 123 ->
                  LET j == SkipWs(tx, i + 1)
                  IN  IF j <= Len(tx) /\ tx[j] = 125 THEN POk(Obj(<<>>, <<>>), j + 1)
                      ELSE PObj(tx, j, Obj(<<>>, <<>>))
             [] tx[i] = 91 ->
                  LET j == SkipWs(tx, i + 1)
                  IN  IF j <= Len(tx) /\ tx[j] = 93 THEN POk(Arr(<<>>), j + 1)
                      ELSE PArr(tx, j, <<>>)
             [] tx[i] = 34 -> PChars(tx, i + 1, <<>>)
             [] tx[i] = 45 \/ IsDigit(tx[i]) -> PNumber(tx, i)
             [] tx[i] = 110 -> IF Matches(tx, i, Str.null_) THEN POk(Null, i + 4) ELSE PFail
             [] tx[i] = 116 -> IF Matches(tx, i, <<116, 114, 117, 101>>)
                               THEN POk(Bool(TRUE), i + 4) ELSE PFail
             [] tx[i] = 102 -> IF Matches(tx, i, <<102, 97, 108, 115, 101>>)
                               THEN POk(Bool(FALSE), i + 5) ELSE PFail
             [] OTHER -> PFail

\* The elements of an array: an element starts at i.
PArr(tx, i, acc) ==
  LET e == PValue(tx, i)
      j == SkipWs(tx, e.i)
  IN  IF ~e.ok \/ j > Len(tx) THEN PFail
      ELSE IF tx[j] = 44 THEN PArr(tx, j + 1, Append(acc, e.v))
      ELSE IF tx[j] = 93 THEN POk(Arr(Append(acc, e.v)), j + 1)
      ELSE PFail

\* The members of an object: a key starts at i.
PObj(tx, i, acc) ==
  LET i1  == SkipWs(tx, i)
      key == IF i1 <= Len(tx) /\ tx[i1] = 34 THEN PChars(tx, i1 + 1, <<>>) ELSE PFail
      c   == SkipWs(tx, key.i)
      val == IF key.ok /\ c <= Len(tx) /\ tx[c] = 58 THEN PValue(tx, c + 1) ELSE PFail
      j   == SkipWs(tx, val.i)
  IN  IF ~val.ok \/ j > Len(tx) THEN PFail
      ELSE IF tx[j] = 44 THEN PObj(tx, j + 1, Put(acc, key.v.s, val.v))
      ELSE IF tx[j] = 125 THEN POk(Put(acc, key.v.s, val.v), j + 1)
      ELSE PFail

JSONParse(tx) ==
  LET r == PValue(tx, 1)
  IN  IF r.ok /\ SkipWs(tx, r.i) = Len(tx) + 1
      THEN [ok |-> TRUE, v |-> r.v] ELSE [ok |-> FALSE, v |-> Undef]

(***************************************************************************)
(* Hex, the components and the theme's terrain table.                      *)
(***************************************************************************)
\* Hex.serialize: q and r only; s is derived and never written.
HexSerialize(hex) == Obj(<<Str.q, Str.r>>, <<Num(hex.q), Num(hex.r)>>)

\* DefaultTheme.terrain, in the order of Object.keys.
TerrainKeys == <<"GRASS", "WATER", "MOUNTAIN", "DESERT", "FOREST">>
TerrainTypes ==
  [GRASS    |-> [name |-> Str.grass,    color |-> 5998896,  cost |-> 1],
   WATER    |-> [name |-> Str.water,    color |-> 2498119,  cost |-> 2],
   MOUNTAIN |-> [name |-> Str.mountain, color |-> 9215904,  cost |-> 3],
   DESERT   |-> [name |-> Str.desert,   color |-> 15258530, cost |-> 1],
   FOREST   |-> [name |-> Str.forest,   color |-> 26168,    cost |-> 2]]

\* new PositionComponent(q, r) and new RenderableComponent(color, shape = 'circle').
\* A component is its class and its fields, each a JavaScript value.  sprite is the
\* number of the sprite a renderable refers to, 0 for null; addr is the address of
\* the object where a specification tells objects apart, 0 where none does.
PositionComponent(q, r) ==
  [cls |-> "PositionComponent", q |-> q, r |-> r,
   color |-> Undef, shape |-> Undef, size |-> Undef, sprite |-> 0, addr |-> 0]
RenderableComponent(color, shape) ==
  [cls |-> "RenderableComponent", q |-> Undef, r |-> Undef,
   color |-> color, shape |-> IF shape.t = "undef" THEN JStr(Str.circle) ELSE shape,
   size |-> Num(20), sprite |-> 0, addr |-> 0]

\* A slip: the coordinates written under each other's names.
SwappedPositionSerialize(c) == Obj(<<Str.q, Str.r>>, <<c.r, c.q>>)
PositionSerialize(c) == Obj(<<Str.q, Str.r>>, <<c.q, c.r>>)
RenderableSerialize(c) ==
  Obj(<<Str.color, Str.shape, Str.size>>, <<c.color, c.shape, c.size>>)
\* What reading the fields of a component gives.
Fields(c) ==
  IF c.cls = "PositionComponent" THEN PositionSerialize(c) ELSE RenderableSerialize(c)

\* A slip: the component itself put in the snapshot.  n of an object is the address
\* of the live object it is, and 0 for an object made for the snapshot.
ComponentItself(c) == [Fields(c) EXCEPT !.n = c.addr]
\* component.serialize(): an object literal of the fields.
ComponentSerialize(c) ==
  IF c.cls = "PositionComponent" THEN PositionSerialize(c) ELSE RenderableSerialize(c)

\* The static deserialize of each class: data.q reads undefined from a value that
\* is no object, and throws on null and undefined (DataThrows).
PositionDeserialize(data) == PositionComponent(Get(data, Str.q), Get(data, Str.r))
RenderableDeserialize(data) ==
  [RenderableComponent(Get(data, Str.color), Get(data, Str.shape))
     EXCEPT !.size = Get(data, Str.size)]
DataThrows(data) == IsNullish(data)

\* component.constructor.name: the key of a component in an entity's component map.
ComponentType(c) == Str[c.cls]

\* The registry HexEngine.restoreState hands to deserialize.
ComponentRegistry == {Str.PositionComponent, Str.RenderableComponent}
RegistryDeserialize(type, data) ==
  IF type = Str.PositionComponent THEN PositionDeserialize(data)
  ELSE RenderableDeserialize(data)

(***************************************************************************)
(* EntityManager.  entities is the Map entityId -> component map, each map *)
(* a sequence of entries in insertion order.                               *)
(***************************************************************************)
EntryIndex(m, key, i) ==
  LET found == {j \in i..Len(m) : m[j].key = key}
  IN  IF found = {} THEN 0 ELSE CHOOSE j \in found : \A k \in found : j <= k

MapHas(m, key) == EntryIndex(m, key, 1) # 0
MapGet(m, key) == m[EntryIndex(m, key, 1)].val
\* Map.set: a present key keeps its place.
MapSet(m, key, val) ==
  LET i == EntryIndex(m, key, 1)
  IN  IF i = 0 THEN Append(m, [key |-> key, val |-> val])
      ELSE [m EXCEPT ![i] = [key |-> key, val |-> val]]
MapDelete(m, key) == SelectSeq(m, LAMBDA e : e.key # key)
MapKeys(m) == {m[i].key : i \in 1..Len(m)}

\* The component map createEntity builds from an array of components.
RECURSIVE ComponentMapOf(_, _, _)
ComponentMapOf(components, i, acc) ==
  IF i > Len(components) THEN acc
  ELSE ComponentMapOf(components, i + 1,
                      MapSet(acc, ComponentType(components[i]), components[i]))

\* A slip: the id taken from the number of entities in the store.
CreateEntityReuse(em, components) ==
  [entities     |-> MapSet(em.entities, Len(em.entities) + 1,
                           ComponentMapOf(components, 1, <<>>)),
   nextEntityId |-> em.nextEntityId + 1,
   entityId     |-> Len(em.entities) + 1]

\* createEntity: the id is nextEntityId, which is then incremented; entityId is
\* the id returned.
CreateEntity(em, components) ==
  [entities     |-> MapSet(em.entities, em.nextEntityId, ComponentMapOf(components, 1, <<>>)),
   nextEntityId |-> em.nextEntityId + 1,
   entityId     |-> em.nextEntityId]

DestroyEntity(em, entityId) ==
  [em EXCEPT !.entities = MapDelete(em.entities, entityId)]

\* clear(): no entity, and the counter back at 1.
ClearEntities == [entities |-> <<>>, nextEntityId |-> 1]

\* A slip: some of the types in place of every one.
RECURSIVE QuerySome(_, _, _)
QuerySome(entities, componentTypes, i) ==
  IF i > Len(entities) THEN <<>>
  ELSE LET hasSome == \E type \in componentTypes : MapHas(entities[i].val, type)
       IN  (IF hasSome
            THEN <<[entityId |-> entities[i].key, components |-> entities[i].val]>>
            ELSE <<>>) \o QuerySome(entities, componentTypes, i + 1)

\* query(...componentTypes): the entities having every one of the types.
RECURSIVE Query(_, _, _)
Query(entities, componentTypes, i) ==
  IF i > Len(entities) THEN <<>>
  ELSE LET hasAll == \A type \in componentTypes : MapHas(entities[i].val, type)
       IN  (IF hasAll
            THEN <<[entityId |-> entities[i].key, components |-> entities[i].val]>>
            ELSE <<>>) \o Query(entities, componentTypes, i + 1)

\* serialize(): one {entityId, components: [{type, data}]} for each entity.
SerializeComponents(componentMap) ==
  Arr([i \in 1..Len(componentMap) |->
        Obj(<<Str.type, Str.data>>,
            <<JStr(componentMap[i].key), ComponentSerialize(componentMap[i].val)>>)])
SerializeEntities(entities) ==
  Arr([i \in 1..Len(entities) |->
        Obj(<<Str.entityId, Str.components>>,
            <<Num(entities[i].key), SerializeComponents(entities[i].val)>>)])

\* deserialize(serialized, componentRegistry), the components of one entity:
\* destructuring a null or undefined entry throws, a type the registry lacks is
\* skipped, and the class's deserialize throws on null or undefined data.
RECURSIVE DeserializeComponents(_, _, _)
DeserializeComponents(comps, i, acc) ==
  IF i > Len(comps) THEN [threw |-> FALSE, map |-> acc]
  ELSE LET entry == comps[i]
           type  == Get(entry, Str.type)
           data  == Get(entry, Str.data)
       IN  IF IsNullish(entry) THEN [threw |-> TRUE, map |-> acc]
           ELSE IF type.t = "str" /\ type.s \in ComponentRegistry
                THEN IF DataThrows(data) THEN [threw |-> TRUE, map |-> acc]
                     ELSE DeserializeComponents(comps, i + 1,
                            MapSet(acc, type.s, RegistryDeserialize(type.s, data)))
           ELSE DeserializeComponents(comps, i + 1, acc)

\* The forEach over the entity records, after this.entities.clear().  An exception
\* leaves the store as the loop had made it and nextEntityId as it was before the
\* call.  entityId is a number in every payload of this model.
RECURSIVE DeserializeLoop(_, _, _, _, _)
DeserializeLoop(serialized, i, acc, maxId, oldNext) ==
  IF i > Len(serialized)
  THEN [threw |-> FALSE, entities |-> acc, nextEntityId |-> maxId + 1]
  ELSE LET entityData == serialized[i]
           comps      == Get(entityData, Str.components)
           cm         == DeserializeComponents(comps.a, 1, <<>>)
           entityId   == Get(entityData, Str.entityId).n
           failed     == [threw |-> TRUE, entities |-> acc, nextEntityId |-> oldNext]
       IN  IF entityData.t # "obj" \/ comps.t # "arr" THEN failed
           ELSE IF cm.threw THEN failed
           ELSE DeserializeLoop(serialized, i + 1, MapSet(acc, entityId, cm.map),
                                IF entityId > maxId THEN entityId ELSE maxId, oldNext)

\* A slip: the counter set from the number of entities restored.
DeserializeEntitiesCount(em, serialized) ==
  IF serialized.t # "arr"
  THEN [threw |-> TRUE, entities |-> <<>>, nextEntityId |-> em.nextEntityId]
  ELSE LET done == DeserializeLoop(serialized.a, 1, <<>>, 0, em.nextEntityId)
       IN  IF done.threw THEN done
           ELSE [done EXCEPT !.nextEntityId = Len(done.entities) + 1]

\* What deserialize reports of the types it skipped: the forEach over the components
\* has no branch for a type the registry lacks and makes no console call, so nothing,
\* whatever the payload is.
DeserializeReported(serialized) == {}

\* deserialize: clear first, then restore; serialized.forEach throws when serialized
\* is no array.
DeserializeEntities(em, serialized) ==
  IF serialized.t # "arr"
  THEN [threw |-> TRUE, entities |-> <<>>, nextEntityId |-> em.nextEntityId]
  ELSE DeserializeLoop(serialized.a, 1, <<>>, 0, em.nextEntityId)

(***************************************************************************)
(* Numbers of the hex arithmetic.  A JavaScript number that a computation  *)
(* on coordinates yields is modelled as the fraction n / d in lowest terms *)
(* with d > 0, and sums, differences, products and quotients are exact.    *)
(***************************************************************************)
Abs(i) == IF i < 0 THEN 0 - i ELSE i

RECURSIVE Gcd(_, _)
Gcd(a, b) == IF b = 0 THEN a ELSE Gcd(b, a % b)

Rat(n, d) ==
  LET g == Gcd(Abs(n), Abs(d))
  IN  IF d < 0 THEN [n |-> (0 - n) \div g, d |-> (0 - d) \div g]
      ELSE [n |-> n \div g, d |-> d \div g]

Whole(i) == [n |-> i, d |-> 1]
IsWhole(x) == x.d = 1

RAdd(x, y) == Rat(x.n * y.d + y.n * x.d, x.d * y.d)
RNeg(x)    == [n |-> 0 - x.n, d |-> x.d]
RSub(x, y) == RAdd(x, RNeg(y))
RMul(x, y) == Rat(x.n * y.n, x.d * y.d)
\* x / y, for y other than 0
RDiv(x, y) == Rat(x.n * y.d, x.d * y.n)
RLess(x, y) == x.n * y.d < y.n * x.d
\* Math.abs
MathAbs(x) == [n |-> Abs(x.n), d |-> x.d]
\* Math.round: the integer nearest to x, the greater one of two equally near.
MathRound(x) == Whole((2 * x.n + x.d) \div (2 * x.d))

(***************************************************************************)
(* Hex (Hex.js): axial coordinates q, r and the cube coordinate s.         *)
(***************************************************************************)
\* A slip of sign: s = -q + r.
HexSignSlip(q, r) == [q |-> q, r |-> r, s |-> RAdd(RNeg(q), r)]

\* constructor(q, r)
Hex(q, r) == [q |-> q, r |-> r, s |-> RSub(RNeg(q), r)]

\* A slip: the middle term taken from the difference of q and r.
DistanceToSkewed(this, other) ==
  RDiv(RAdd(RAdd(MathAbs(RSub(this.q, other.q)),
                 MathAbs(RSub(RSub(RSub(this.q, this.r), other.q), other.r))),
            MathAbs(RSub(this.r, other.r))),
       Whole(2))

DistanceTo(this, other) ==
  RDiv(RAdd(RAdd(MathAbs(RSub(this.q, other.q)),
                 MathAbs(RSub(RSub(RAdd(this.q, this.r), other.q), other.r))),
            MathAbs(RSub(this.r, other.r))),
       Whole(2))

Equals(this, other) == this.q = other.q /\ this.r = other.r

\* The table of neighbor: E, NE, NW, W, SW, SE.
Directions == << <<1, 0>>, <<1, -1>>, <<0, -1>>, <<-1, 0>>, <<-1, 1>>, <<0, 1>> >>

\* A slip in the table: SW written as (-1, -1).
NeighborSlip(this, direction) ==
  LET dir == IF direction = 4 THEN <<-1, -1>> ELSE Directions[direction + 1]
  IN  Hex(RAdd(this.q, Whole(dir[1])), RAdd(this.r, Whole(dir[2])))

\* neighbor(direction), for a direction of 0..5
Neighbor(this, direction) ==
  LET dir == Directions[direction + 1]
  IN  Hex(RAdd(this.q, Whole(dir[1])), RAdd(this.r, Whole(dir[2])))

Neighbors(this) == [i \in 1..6 |-> Neighbor(this, i - 1)]

Max(a, b) == IF a > b THEN a ELSE b
Min(a, b) == IF a < b THEN a ELSE b

\* The inner loop of range: r from r1 to r2 for one q.
RECURSIVE RangeColumn(_, _, _, _, _)
RangeColumn(this, q, r, r2, results) ==
  IF r > r2 THEN results
  ELSE RangeColumn(this, q, r + 1, r2,
         Append(results, Hex(RAdd(this.q, Whole(q)), RAdd(this.r, Whole(r)))))

\* A slip: the inner loop bounded by the distance alone (a rhombus).
RECURSIVE RangeRhombus(_, _, _, _)
RangeRhombus(this, distance, q, results) ==
  IF q > distance THEN results
  ELSE RangeRhombus(this, distance, q + 1,
         RangeColumn(this, q, 0 - distance, distance, results))

\* The outer loop of range: q from -distance to distance.
RECURSIVE RangeLoop(_, _, _, _)
RangeLoop(this, distance, q, results) ==
  IF q > distance THEN results
  ELSE RangeLoop(this, distance, q + 1,
         RangeColumn(this, q, Max(0 - distance, (0 - q) - distance),
                     Min(distance, (0 - q) + distance), results))

\* range(distance), for an integer distance
Range(this, distance) == RangeLoop(this, distance, 0 - distance, <<>>)

\* The q and r of a hex of integer coordinates, as the cell map and the JSON values
\* of this model hold them.
Axial(hex) == [q |-> hex.q.n, r |-> hex.r.n]

\* Hex.deserialize(data), for data with numbers q and r
HexDeserialize(data) == Hex(Whole(Get(data, Str.q).n), Whole(Get(data, Str.r).n))

\* Hex.lerp(a, b, t)
Lerp(a, b, t) ==
  Hex(RAdd(RMul(a.q, RSub(Whole(1), t)), RMul(b.q, t)),
      RAdd(RMul(a.r, RSub(Whole(1), t)), RMul(b.r, t)))

\* A slip: each coordinate rounded on its own.
RoundEach(q, r) == Hex(MathRound(q), MathRound(r))

\* Hex.round(q, r)
Round(q, r) ==
  LET s     == RSub(RNeg(q), r)
      rq    == MathRound(q)
      rr    == MathRound(r)
      rs    == MathRound(s)
      qDiff == MathAbs(RSub(rq, q))
      rDiff == MathAbs(RSub(rr, r))
      sDiff == MathAbs(RSub(rs, s))
  IN  IF RLess(rDiff, qDiff) /\ RLess(sDiff, qDiff)
      THEN Hex(RSub(RNeg(rr), rs), rr)
      ELSE IF RLess(sDiff, rDiff)
      THEN Hex(rq, RSub(RNeg(rq), rs))
      ELSE Hex(rq, rr)

(***************************************************************************)
(* HexGrid: the cell map, keyed by the text "q,r".                         *)
(***************************************************************************)
\* key(): `${this.q},${this.r}`
HexKey(q, r) == NumText(q) \o <<44>> \o NumText(r)

\* initializeGrid: columns outside, rows inside; q = col - floor(row / 2), r = row.
\* terrainOf[n] is the terrain key Math.random picks for the n-th cell.  The two loops
\* make no cell for a width or a height below 1.
\* The inner loop of initializeGrid: the rows of one column.
RECURSIVE InitializeColumn(_, _, _, _, _)
InitializeColumn(height, terrainOf, col, row, acc) ==
  IF row >= height \/ Len(acc) < 0 THEN acc
  ELSE LET q == col - (row \div 2)
           r == row
       IN  InitializeColumn(height, terrainOf, col, row + 1,
             MapSet(acc, HexKey(q, r),
                    [hex |-> [q |-> q, r |-> r],
                     terrain |-> terrainOf[col * height + row + 1]]))

\* A slip: the offset of the rows left out, q = col.
RECURSIVE InitializeGridNoOffset(_, _, _, _, _)
InitializeGridNoOffset(width, height, terrainOf, col, acc) ==
  IF col >= width THEN acc
  ELSE InitializeGridNoOffset(width, height, terrainOf, col + 1,
         acc \o [row \in 1..Max(height, 0) |->
                   [key |-> HexKey(col, row - 1),
                    val |-> [hex |-> [q |-> col, r |-> row - 1],
                             terrain |-> terrainOf[col * height + row]]]])

\* The outer loop: the columns, from col on.
RECURSIVE InitializeGrid(_, _, _, _, _)
InitializeGrid(width, height, terrainOf, col, acc) ==
  IF col >= width \/ Len(acc) < 0 THEN acc
  ELSE InitializeGrid(width, height, terrainOf, col + 1,
         InitializeColumn(height, terrainOf, col, 0, acc))

\* The defaults of the constructor: config.size || 30, config.width || 20,
\* config.height || 20.
DefaultSize   == 30
DefaultWidth  == 20
DefaultHeight == 20
\* value || default, for a number
OrDefault(value, default) == IF value = 0 THEN default ELSE value

\* A slip: the cells made square, the width taken for the height.
HexGridSquare(size, width, height, terrainOf) ==
  [size   |-> OrDefault(size, DefaultSize),
   width  |-> OrDefault(width, DefaultWidth),
   height |-> OrDefault(height, DefaultHeight),
   hexes  |-> InitializeGrid(OrDefault(width, DefaultWidth),
                             OrDefault(width, DefaultWidth), terrainOf, 0, <<>>)]

\* new HexGrid({size, width, height}, themeManager).  It has no throw statement.
HexGrid(size, width, height, terrainOf) ==
  [size   |-> OrDefault(size, DefaultSize),
   width  |-> OrDefault(width, DefaultWidth),
   height |-> OrDefault(height, DefaultHeight),
   hexes  |-> InitializeGrid(OrDefault(width, DefaultWidth),
                             OrDefault(height, DefaultHeight), terrainOf, 0, <<>>)]

\* getHexCount(): the size of the cell map.
GetHexCount(grid) == Len(grid.hexes)

(***************************************************************************)
(* The layout.  Its numbers are those of the form a + b * sqrt(3) with a   *)
(* and b fractions, on which the arithmetic is exact.                      *)
(***************************************************************************)
Surd(a, b)  == [a |-> a, b |-> b]
FromRat(x)  == Surd(x, Whole(0))
\* Math.sqrt(3)
Sqrt3       == Surd(Whole(0), Whole(1))
SAdd(x, y)  == Surd(RAdd(x.a, y.a), RAdd(x.b, y.b))
SSub(x, y)  == Surd(RSub(x.a, y.a), RSub(x.b, y.b))
SMul(x, y)  == Surd(RAdd(RMul(x.a, y.a), RMul(Whole(3), RMul(x.b, y.b))),
                    RAdd(RMul(x.a, y.b), RMul(x.b, y.a)))
\* x / y, for y other than 0
SDiv(x, y)  ==
  LET norm == RSub(RMul(y.a, y.a), RMul(Whole(3), RMul(y.b, y.b)))
      num  == SMul(x, Surd(y.a, RNeg(y.b)))
  IN  Surd(RDiv(num.a, norm), RDiv(num.b, norm))
\* The number as a fraction, sqrt(3) taken as 97 / 56 where it remains.
Approx(x)   == RAdd(x.a, RMul(x.b, Rat(97, 56)))

\* this.layout.orientation: f0..f3 forward, b0..b3 backward.
Orientation ==
  [f0 |-> Sqrt3,
   f1 |-> SDiv(Sqrt3, FromRat(Whole(2))),
   f2 |-> FromRat(Whole(0)),
   f3 |-> FromRat(Rat(3, 2)),
   b0 |-> SDiv(Sqrt3, FromRat(Whole(3))),
   b1 |-> FromRat(Rat(-1, 3)),
   b2 |-> FromRat(Whole(0)),
   b3 |-> FromRat(Rat(2, 3))]

\* this.layout of a grid
Layout(grid) ==
  [orientation |-> Orientation,
   size        |-> FromRat(Whole(grid.size)),
   origin      |-> [x |-> FromRat(Whole(0)), y |-> FromRat(Whole(0))]]

\* hexToPixel(hex)
HexToPixel(grid, hex) ==
  LET M      == Layout(grid).orientation
      size   == Layout(grid).size
      origin == Layout(grid).origin
      q      == FromRat(hex.q)
      r      == FromRat(hex.r)
  IN  [x |-> SAdd(SMul(SAdd(SMul(M.f0, q), SMul(M.f1, r)), size), origin.x),
       y |-> SAdd(SMul(SAdd(SMul(M.f2, q), SMul(M.f3, r)), size), origin.y)]

\* A slip: the pixel not divided by the size.
PixelToHexUnscaled(grid, x, y, err) ==
  LET M  == Layout(grid).orientation
      q  == SAdd(SMul(M.b0, x), SMul(M.b1, y))
      r  == SAdd(SMul(M.b2, x), SMul(M.b3, y))
  IN  Round(RAdd(Approx(q), err.q), RAdd(Approx(r), err.r))

\* pixelToHex(x, y).  err is what the floating-point arithmetic of both conversions
\* has added to the exact q and r when Hex.round is given them.
PixelToHex(grid, x, y, err) ==
  LET M      == Layout(grid).orientation
      size   == Layout(grid).size
      origin == Layout(grid).origin
      pt     == [x |-> SDiv(SSub(x, origin.x), size), y |-> SDiv(SSub(y, origin.y), size)]
      q      == SAdd(SMul(M.b0, pt.x), SMul(M.b1, pt.y))
      r      == SAdd(SMul(M.b2, pt.x), SMul(M.b3, pt.y))
  IN  Round(RAdd(Approx(q), err.q), RAdd(Approx(r), err.r))

\* HexGrid.serialize: each cell's coordinate and the name of its terrain.
GridSerialize(grid) ==
  Obj(<<Str.size, Str.width, Str.height, Str.hexes>>,
      <<Num(grid.size), Num(grid.width), Num(grid.height),
        Arr([i \in 1..Len(grid.hexes) |->
              Obj(<<Str.hex, Str.terrain>>,
                  <<HexSerialize(grid.hexes[i].val.hex),
                    JStr(TerrainTypes[grid.hexes[i].val.terrain].name)>>)])>>)

(***************************************************************************)
(* StateManager.                                                           *)
(***************************************************************************)
EngineVersion == Str.v100

\* Signed 32-bit integers.  A product is taken on the 16-bit halves, where it
\* cannot overflow the integers of the checker: hash = Hi(hash) * 2^16 + Lo(hash).
W16 == 256 * 256
Hi(int32) == int32 \div W16
Lo(int32) == int32 % W16
\* The signed 32-bit integer that is hi * 2^16 + lo modulo 2^32, for lo >= 0.
ToInt32(hi, lo) ==
  (((hi + (lo \div W16) + 32768) % W16) - 32768) * W16 + (lo % W16)

\* A slip: (hash << 5) + hash, which is hash * 33.
HashStepAdding(hash, char) ==
  ToInt32(Hi(hash) * 32 + Hi(hash), Lo(hash) * 32 + Lo(hash) + char)

\* One round of the loop: hash = ((hash << 5) - hash) + char; hash = hash & hash.
\* hash << 5 is hash * 32 modulo 2^32; the sum is exact and hash & hash wraps it.
HashStep(hash, char) ==
  ToInt32(Hi(hash) * 32 - Hi(hash), Lo(hash) * 32 - Lo(hash) + char)

\* The loop over the code units lo..hi of jsonString, in order, starting from hash.
\* The range is halved to keep the evaluation shallow; the rounds and their order
\* are those of the for loop.  (Lo(hash) < 0 never holds: the test has hash
\* evaluated before the rounds that follow it.)
RECURSIVE HashLoop(_, _, _, _)
HashLoop(jsonString, lo, hi, hash) ==
  IF lo > hi \/ Lo(hash) < 0 THEN hash
  ELSE IF lo = hi THEN HashStep(hash, jsonString[lo])
  ELSE LET mid == (lo + hi) \div 2
       IN  HashLoop(jsonString, mid + 1, hi, HashLoop(jsonString, lo, mid, hash))

\* A slip: the checksum member left in the copy that is hashed.
ChecksumWithField(state) ==
  LET jsonString == Stringify(state, 0)
  IN  HashLoop(jsonString, 1, Len(jsonString), 0)

\* calculateChecksum: the hash of the compact JSON text of a copy of the state
\* without its checksum member.
CalculateChecksum(state) ==
  LET stateCopy  == Delete(state, Str.checksum)
      jsonString == Stringify(stateCopy, 0)
  IN  HashLoop(jsonString, 1, Len(jsonString), 0)

\* saveToHistory: the state is pushed, and the oldest one dropped once there are
\* more than maxHistorySize.
MaxHistorySize == 100
\* A slip: pop() for shift(), so that the newest snapshot is the one dropped.
SaveToHistoryPop(history, state) ==
  LET pushed == Append(history, state)
  IN  IF Len(pushed) > MaxHistorySize THEN SubSeq(pushed, 1, Len(pushed) - 1) ELSE pushed
SaveToHistory(history, state) ==
  LET pushed == Append(history, state)
  IN  IF Len(pushed) > MaxHistorySize THEN Tail(pushed) ELSE pushed

\* A slip: the checksum calculated before the viewport is in the state.
CaptureStateEarly(grid, entities, viewport, now) ==
  LET early == Obj(<<Str.version, Str.timestamp, Str.grid, Str.entities, Str.turn>>,
                   <<JStr(EngineVersion), Num(now), GridSerialize(grid),
                     SerializeEntities(entities), Num(0)>>)
      state == Put(early, Str.viewport,
                   Obj(<<Str.x, Str.y, Str.scale>>,
                       <<Num(viewport.x), Num(viewport.y), Num(viewport.scale)>>))
  IN  Put(state, Str.checksum, Num(CalculateChecksum(early)))

\* captureState: the snapshot of the grid, the entities and the viewport at time now,
\* the checksum added last.  There is no turnManager: turn is 0.
CaptureState(grid, entities, viewport, now) ==
  LET state == Obj(<<Str.version, Str.timestamp, Str.grid, Str.entities, Str.turn,
                     Str.viewport>>,
                   <<JStr(EngineVersion), Num(now), GridSerialize(grid),
                     SerializeEntities(entities), Num(0),
                     Obj(<<Str.x, Str.y, Str.scale>>,
                         <<Num(viewport.x), Num(viewport.y), Num(viewport.scale)>>)>>)
  IN  Put(state, Str.checksum, Num(CalculateChecksum(state)))

\* version.split('.')[0]
RECURSIVE MajorOf(_, _)
MajorOf(version, i) ==
  IF i > Len(version) \/ version[i] = 46 THEN SubSeq(version, 1, i - 1)
  ELSE MajorOf(version, i + 1)

\* A slip: no version is refused.
AnyVersionCompatible(version) == Len(version) >= 0
IsVersionCompatible(version) == MajorOf(version, 1) = MajorOf(EngineVersion, 1)

\* A slip: a checksum mismatch thrown like a version mismatch.
ValidateStrict(parsed) ==
  LET state   == parsed.v
      version == Get(state, Str.version)
      result(threw, warned) == [threw |-> threw, state |-> state, warned |-> warned]
  IN  IF ~parsed.ok THEN result("SyntaxError", FALSE)
      ELSE IF IsNullish(state) \/ version.t # "str" THEN result("TypeError", FALSE)
      ELSE IF ~IsVersionCompatible(version.s) THEN result("IncompatibleVersion", FALSE)
      ELSE IF Get(state, Str.checksum) # Num(CalculateChecksum(state))
           THEN result("ChecksumMismatch", TRUE)
      ELSE result("none", FALSE)

\* loadState after JSON.parse: what it throws ("none" when it returns), the state
\* it returns and whether it warned of a checksum mismatch.  Reading state.version
\* of null, or version.split of a value that is no string, is a TypeError.
Validate(parsed) ==
  LET state   == parsed.v
      version == Get(state, Str.version)
      result(threw, warned) == [threw |-> threw, state |-> state, warned |-> warned]
  IN  IF ~parsed.ok THEN result("SyntaxError", FALSE)
      ELSE IF IsNullish(state) \/ version.t # "str" THEN result("TypeError", FALSE)
      ELSE IF ~IsVersionCompatible(version.s) THEN result("IncompatibleVersion", FALSE)
      ELSE result("none", Get(state, Str.checksum) # Num(CalculateChecksum(state)))

\* loadState(jsonString).  (The text is parsed once: parsed ranges over one value.)
LoadState(jsonString) ==
  CHOOSE loaded \in {Validate(parsed) : parsed \in {JSONParse(jsonString)}} : TRUE

(***************************************************************************)
(* StateManager.restoreState(state, {entityManager, hexGrid, viewport},    *)
(* componentRegistry), which HexEngine.restoreState calls.  The grid       *)
(* snapshot is validated first (as many cells as width * height, every     *)
(* terrain name one of the terrain table, every coordinate a pair of       *)
(* numbers); an invalid one is a validation error before anything is       *)
(* changed.  Then the cell map is replaced and the entities are restored   *)
(* by EntityManager.deserialize.                                           *)
(***************************************************************************)
TerrainKeyOf(name) ==
  IF \E i \in 1..Len(TerrainKeys) : TerrainTypes[TerrainKeys[i]].name = name
  THEN (CHOOSE key \in {TerrainKeys[i] : i \in 1..Len(TerrainKeys)} :
          TerrainTypes[key].name = name)
  ELSE "none"

GridCellValid(cell) ==
  LET hex     == Get(cell, Str.hex)
      terrain == Get(cell, Str.terrain)
  IN  /\ Get(hex, Str.q).t = "num"
      /\ Get(hex, Str.r).t = "num"
      /\ terrain.t = "str"
      /\ TerrainKeyOf(terrain.s) # "none"

\* A slip: the number of cells not compared with width * height.
GridSnapshotValidNoCount(snapshot) ==
  LET hexes  == Get(snapshot, Str.hexes)
  IN  /\ hexes.t = "arr"
      /\ \A i \in 1..Len(hexes.a) : GridCellValid(hexes.a[i])

GridSnapshotValid(snapshot) ==
  LET hexes  == Get(snapshot, Str.hexes)
      width  == Get(snapshot, Str.width)
      height == Get(snapshot, Str.height)
  IN  /\ hexes.t = "arr" /\ width.t = "num" /\ height.t = "num"
      /\ Get(snapshot, Str.size).t = "num"
      /\ Len(hexes.a) = width.n * height.n
      /\ \A i \in 1..Len(hexes.a) : GridCellValid(hexes.a[i])

\* The cell map of an accepted snapshot: it replaces the old one.
RECURSIVE RestoreCells(_, _, _)
RestoreCells(cells, i, acc) ==
  IF i > Len(cells) THEN acc
  ELSE LET q == Get(Get(cells[i], Str.hex), Str.q).n
           r == Get(Get(cells[i], Str.hex), Str.r).n
       IN  RestoreCells(cells, i + 1,
             MapSet(acc, HexKey(q, r),
                    [hex |-> [q |-> q, r |-> r],
                     terrain |-> TerrainKeyOf(Get(cells[i], Str.terrain).s)]))

GridRestore(snapshot) ==
  [size   |-> Get(snapshot, Str.size).n,
   width  |-> Get(snapshot, Str.width).n,
   height |-> Get(snapshot, Str.height).n,
   hexes  |-> RestoreCells(Get(snapshot, Str.hexes).a, 1, <<>>)]

\* What restoreState throws ("none" when it returns) and the grid and the entity
\* store it leaves.  A snapshot without a grid (grid: null) restores the entities only.
RestoreState(state, grid, em) ==
  LET gridSnapshot == Get(state, Str.grid)
      newGrid      == IF IsNullish(gridSnapshot) THEN grid ELSE GridRestore(gridSnapshot)
      restored     == DeserializeEntities(em, Get(state, Str.entities))
  IN  IF ~IsNullish(gridSnapshot) /\ ~GridSnapshotValid(gridSnapshot)
      THEN [threw |-> "ValidationError", reported |-> {}, grid |-> grid, em |-> em]
      ELSE [threw |-> IF restored.threw THEN "TypeError" ELSE "none",
            reported |-> DeserializeReported(Get(state, Str.entities)),
            grid  |-> newGrid,
            em    |-> [entities     |-> restored.entities,
                       nextEntityId |-> restored.nextEntityId]]

(***************************************************************************)
(* HexEngine: the pan, zoom and click handling of setupInputHandlers, the  *)
(* hex inspector, and the keys of the page that act on them.  The canvas   *)
(* is at the origin of the page: clientX and clientY are canvas            *)
(* coordinates.  initialize has found the tooltip element and set the      *)
(* formatter.                                                              *)
(***************************************************************************)
MinScale == Rat(1, 2)
MaxScale == Whole(3)
CLICK_THRESHOLD == 5

Point(x, y) == [x |-> x, y |-> y]

\* Math.sqrt of a perfect square, at most limit * limit.
Sqrt(n, limit) == CHOOSE d \in 0..limit : d * d = n

\* Math.sqrt(dx * dx + dy * dy), for points whose distance is a whole number.
Distance(a, b) ==
  LET dx == a.x - b.x
      dy == a.y - b.y
  IN  Sqrt(dx * dx + dy * dy, Abs(dx) + Abs(dy))

\* A slip: the lower limit left out.
ClampScaleAbove(newScale) == IF RLess(MaxScale, newScale) THEN MaxScale ELSE newScale

\* Math.max(this.minScale, Math.min(this.maxScale, newScale))
ClampScale(newScale) ==
  LET capped == IF RLess(MaxScale, newScale) THEN MaxScale ELSE newScale
  IN  IF RLess(capped, MinScale) THEN MinScale ELSE capped

\* updateViewportTransform: the position and the scale of the Pixi viewport.
UpdateViewportTransform(eng) ==
  [eng EXCEPT !.viewport.x = eng.viewportPos.x, !.viewport.y = eng.viewportPos.y,
              !.viewport.scale = eng.scale]

\* if (newScale !== this.scale) { this.scale = newScale; updateViewportTransform() }
Zoom(eng, newScale) ==
  IF newScale # eng.scale THEN UpdateViewportTransform([eng EXCEPT !.scale = newScale])
  ELSE eng

\* TooltipManager.hide and showPinned, the element and the formatter being there.
TooltipHide(tooltipManager) ==
  [tooltipManager EXCEPT !.visible = FALSE, !.pinned = FALSE]
TooltipShowPinned(tooltipManager) ==
  [tooltipManager EXCEPT !.pinned = TRUE, !.visible = TRUE]

\* A slip: the inspector left open.
KeepInspector(eng) == eng

\* if (this.inspectedHex) { this.inspectedHex = null; this.tooltipManager.hide() }
CloseInspector(eng) ==
  IF eng.inspectedHex # Null
  THEN [eng EXCEPT !.inspectedHex = Null, !.tooltipManager = TooltipHide(@)]
  ELSE eng

\* toggleHexInspector(hex, hexData): the inspector of the same hex is closed; another
\* hex is inspected, its data pinned in the tooltip.
ToggleHexInspector(eng, hex, hexData) ==
  IF eng.inspectedHex # Null
       /\ Get(eng.inspectedHex, Str.q) = Num(hex.q)
       /\ Get(eng.inspectedHex, Str.r) = Num(hex.r)
  THEN [eng EXCEPT !.inspectedHex = Null, !.tooltipManager = TooltipHide(@)]
  ELSE [eng EXCEPT !.inspectedHex = Obj(<<Str.q, Str.r>>, <<Num(hex.q), Num(hex.r)>>),
                   !.tooltipManager = TooltipShowPinned(@)]

\* getHex(q, r): the cell of the key `${q},${r}`, undefined when there is none.
HasHex(grid, q, r) == MapHas(grid.hexes, HexKey(q, r))

\* The end of the click and of the touchend handler: the point is converted to
\* world coordinates and to a hex; a hex of the grid toggles the inspector when the
\* debug overlay is visible, and is given to onHexClick otherwise.  invoked is the
\* function called.  No unit is armed for spawning: onHexClick does nothing.
HexClicked(eng, grid, hex) ==
  IF ~HasHex(grid, hex.q, hex.r) THEN [eng |-> eng, invoked |-> "none"]
  ELSE IF eng.debugOverlay.visible
       THEN [eng |-> ToggleHexInspector(eng, hex, MapGet(grid.hexes, HexKey(hex.q, hex.r))),
             invoked |-> "toggleHexInspector"]
       ELSE [eng |-> eng, invoked |-> "onHexClick"]

HexClick(eng, grid, clientX, clientY) ==
  CHOOSE done \in
    {HexClicked(eng, grid, hex) :
       hex \in {Axial(PixelToHex(
                  grid,
                  FromRat(RDiv(Whole(clientX - eng.viewportPos.x), eng.scale)),
                  FromRat(RDiv(Whole(clientY - eng.viewportPos.y), eng.scale)),
                  [q |-> Whole(0), r |-> Whole(0)]))}} : TRUE

\* DebugOverlay.toggle and toggleDetailedMode.
OverlayToggle(debugOverlay) == [debugOverlay EXCEPT !.visible = ~@]
OverlayToggleDetailedMode(debugOverlay) ==
  [debugOverlay EXCEPT !.visible = TRUE, !.detailedMode = ~@]

\* An event as its handler saw it: its type, the scale it asked for before the
\* limits, and what it called: tooltipManager.hide() to close the inspector on a
\* zoom or a drag, or toggleHexInspector or onHexClick for a hex clicked or tapped.
Event(type, asked, invoked) == [type |-> type, asked |-> asked, invoked |-> invoked]
NoEvent == Event("none", Whole(1), "none")

\* The pointers: the fingers on the canvas in the order they came down, whether the
\* mouse button went down on the canvas, the click that follows a mouseup, whether
\* two fingers have been down together since the canvas was last untouched, and the
\* event just handled.
NoPoint == Point(-1, -1)
InitialPointer ==
  [touches |-> <<>>, armed |-> FALSE, click |-> NoPoint, multi |-> FALSE,
   event |-> NoEvent]

(***************************************************************************)
(* The page (main.js): the engine it builds, the unit spawner, the state   *)
(* viewer with its Capture and Load buttons.                               *)
(***************************************************************************)
\* The texts a user puts in place of the ones the capture wrote.
IncompatibleVersion == <<50, 46, 48, 46, 48>>                          \* "2.0.0"
MinorVersion        == <<49, 46, 50, 46, 48>>                          \* "1.2.0"
UnknownTerrain      == <<108, 97, 118, 97>>                            \* "lava"

GridWidth  == 2
GridHeight == 1
HexSize    == 30
\* The terrain keys Math.random picks from when the grid is built: the first ones
\* of the terrain table.
TerrainChoices == 2
\* createEntity is called while nextEntityId is at most this.
MaxEntityId == 2
\* saveToHistory is called while the history has fewer states than this.
MaxSaved == 1
\* Date.now() at a capture.
Times == {1000}
\* The cells a user clicks to place a unit, by their place in the cell map.
ClickCells == {GridWidth * GridHeight}
\* The unit a spawn button of the page arms: window.spawnUnit(shape, color).
Units == {[shape |-> Str.circle, color |-> 16711680]}

InitialViewport == [x |-> 600, y |-> 400, scale |-> 1]

\* The engine after initialize, for the window of the page.
WindowWidth == 1200
WindowHeight == 800
InitialEngine ==
  [config         |-> [width |-> WindowWidth, height |-> WindowHeight,
                       hexSize |-> HexSize,
                       gridWidth |-> GridWidth, gridHeight |-> GridHeight],
   scale          |-> Whole(1),
   viewportPos    |-> Point(WindowWidth \div 2, WindowHeight \div 2),
   viewport       |-> [x |-> WindowWidth \div 2, y |-> WindowHeight \div 2,
                       scale |-> Whole(1),
                       children |-> <<"hexGrid.container", "renderSystem.container">>],
   isDragging     |-> FALSE,
   hasDragged     |-> FALSE,
   dragStart      |-> Point(0, 0),
   mouseDownPos   |-> Point(0, 0),
   inspectedHex   |-> Null,
   lastTouchDistance |-> 0,
   touchStartPos  |-> Point(0, 0),
   theme          |-> [k \in DOMAIN TerrainTypes |-> TerrainTypes[k].color],
   debugOverlay   |-> [visible |-> FALSE, detailedMode |-> FALSE],
   tooltipManager |-> [visible |-> FALSE, pinned |-> FALSE]]

VARIABLES
  hexGrid,        \* engine.hexGrid: size, width, height and the cell map
  entities,       \* engine.entityManager.entities
  nextEntityId,   \* engine.entityManager.nextEntityId
  stateHistory,   \* engine.stateManager.stateHistory
  textarea,       \* the text of the state viewer (#state-json)
  captured,       \* history: the last captured snapshot, and the live entities and
                  \* cells it was taken from
  issued,         \* history of SpecECS: for each createEntity call, the id it
                  \* returned and the ids destroyed before it
  destroyed,      \* history of SpecECS: the ids of the entities destroyEntity removed
  queried,        \* history of SpecECS: the types and the result of the query just made
  last,           \* history: what the Load handler was given and did, from its
                  \* return until the results panel is cleared; Idle otherwise
  calc,           \* history of SpecHex and SpecGrid: the call of Hex or HexGrid just
                  \* made, what it was given and what it returned
  saves,          \* history of SpecHistory: the snapshots saveToHistory was given
                  \* since the history was last emptied, in the order of the calls
  engine,         \* the HexEngine: its pan and zoom state, the inspected hex, the
                  \* touch state of its handlers, its debug overlay and its tooltip
  pointer,        \* the mouse and the fingers on the canvas, and the event just handled
  render,         \* engine.renderSystem.container: its children, the sprites made and
                  \* destroyed so far, and whether update() has returned since the
                  \* store was last changed
  heap,           \* the component objects allocated so far, by address, each with the
                  \* fields it has now
  held            \* a snapshot captureState returned and the caller keeps, and what
                  \* it read as when it was returned

vars == <<hexGrid, entities, nextEntityId, stateHistory, textarea, captured,
         issued, destroyed, queried, last, calc, saves,
         engine, pointer, render, heap, held>>

\* The state of the input handling, of the history log and of the rendering, which
\* the state viewer, the entity store and the hex arithmetic leave alone.
more == <<saves, engine, pointer, render, heap, held>>

ecsLog == <<issued, destroyed, queried>>
page   == <<hexGrid, stateHistory, textarea, captured, last>>

NoQuery == [called |-> FALSE, types |-> {}, results |-> <<>>]

\* new PIXI.Container(): no child.  A child is a sprite, known by its number, with
\* the entityId it was tagged with.
InitialRender == [children |-> <<>>, made |-> 0, destroyed |-> {}, updated |-> FALSE]

NothingHeld == [state |-> Undef, taken |-> Undef]

\* A call and its results: the operation, its arguments, the hexes it returned, the
\* number it returned, the JSON value it returned, the grid it built.
Call(op, args, hexes, value, json, grid) ==
  [op |-> op, args |-> args, hexes |-> hexes, value |-> value, json |-> json,
   grid |-> grid]
NoCall == Call("none", <<>>, <<>>, Whole(0), Undef, <<>>)

EntityManager == [entities |-> entities, nextEntityId |-> nextEntityId]

Idle == [op |-> "idle", input |-> "none", loadThrew |-> "none", warned |-> FALSE,
         restoreCalled |-> FALSE, restoreThrew |-> "none", reported |-> {}]

\* String.prototype.trim, for the white space JSON texts have.
RECURSIVE TrimStart(_)
TrimStart(tx) == IF Len(tx) > 0 /\ IsWs(tx[1]) THEN TrimStart(Tail(tx)) ELSE tx
RECURSIVE TrimEnd(_)
TrimEnd(tx) ==
  IF Len(tx) > 0 /\ IsWs(tx[Len(tx)]) THEN TrimEnd(SubSeq(tx, 1, Len(tx) - 1)) ELSE tx
Trim(tx) == TrimEnd(TrimStart(tx))

Init ==
  /\ \E terrainOf \in [1..(GridWidth * GridHeight) ->
                        {TerrainKeys[i] : i \in 1..TerrainChoices}] :
       hexGrid = HexGrid(HexSize, GridWidth, GridHeight, terrainOf)
  /\ entities = <<>>
  /\ nextEntityId = 1
  /\ stateHistory = <<>>
  /\ textarea = <<>>
  /\ captured = [state |-> Undef, entities |-> <<>>, hexes |-> <<>>]
  /\ issued = <<>>
  /\ destroyed = {}
  /\ queried = NoQuery
  /\ last = Idle
  /\ calc = NoCall
  /\ saves = <<>>
  /\ engine = InitialEngine
  /\ pointer = InitialPointer
  /\ render = InitialRender
  /\ heap = <<>>
  /\ held = NothingHeld

\* setupUnitSpawner's onHexClick: a unit of the chosen colour and shape on the
\* clicked cell, for a unit armed among pendingUnits.
SpawnOnClick(pendingUnits) ==
  /\ last = Idle
  /\ nextEntityId <= MaxEntityId
  /\ \E i \in ClickCells, pendingUnitSpawn \in pendingUnits :
       LET hex == hexGrid.hexes[i].val.hex
           em  == CreateEntity(EntityManager,
                    <<PositionComponent(Num(hex.q), Num(hex.r)),
                      RenderableComponent(Num(pendingUnitSpawn.color),
                                          JStr(pendingUnitSpawn.shape))>>)
       IN  /\ entities' = em.entities
           /\ nextEntityId' = em.nextEntityId
  /\ UNCHANGED <<hexGrid, stateHistory, textarea, captured, last, ecsLog, calc, more>>

OnHexClick == SpawnOnClick(Units)

\* engine.entityManager.destroyEntity(entityId) from the console, for an entity of
\* the store.
ConsoleDestroyEntity ==
  /\ last = Idle
  /\ \E entityId \in MapKeys(entities) :
       entities' = DestroyEntity(EntityManager, entityId).entities
  /\ UNCHANGED <<hexGrid, nextEntityId, stateHistory, textarea, captured, last, ecsLog, calc, more>>

\* clearAllUnits: entityManager.clear().
ClearAllUnits ==
  /\ last = Idle
  /\ entities' = ClearEntities.entities
  /\ nextEntityId' = ClearEntities.nextEntityId
  /\ UNCHANGED <<hexGrid, stateHistory, textarea, captured, last, ecsLog, calc, more>>

\* window.captureState: the snapshot, pretty-printed into the state viewer.
CaptureToTextarea ==
  /\ last = Idle
  /\ \E now \in Times :
       LET state == CaptureState(hexGrid, entities, InitialViewport, now)
       IN  /\ textarea' = Stringify(state, 2)
           /\ captured' = [state |-> state, entities |-> entities,
                           hexes |-> hexGrid.hexes]
  /\ UNCHANGED <<hexGrid, entities, nextEntityId, stateHistory, last, ecsLog, calc, more>>

\* What a user does to the text of the viewer before pressing Load: nothing; the
\* same snapshot without white space; the last character deleted; another major
\* version (or, with VersionEdits, another minor version); another checksum; another terrain for the first cell, a known one or an
\* unknown one; the last cell deleted; the components of the last entity deleted.
Edits == {"none", "compact", "truncate", "version", "checksum", "terrain",
          "unknownTerrain", "dropCell", "noComponents"}

\* The edits of the version field, with no edit and with the damaged text.
VersionEdits == {"none", "truncate", "version", "minor"}

\* The edits of the component types: the type of the first component of the last
\* entity renamed to one the registry lacks, or such a component added to it.
TypeEdits == {"none", "unknownType", "extraType"}

WithHexes(state, hexes) ==
  Put(state, Str.grid, Put(Get(state, Str.grid), Str.hexes, Arr(hexes)))

EditState(state, edit) ==
  LET hexes == Get(Get(state, Str.grid), Str.hexes).a
      ents  == Get(state, Str.entities).a
      sum   == Get(state, Str.checksum).n
      setTerrain(name) ==
        WithHexes(state, [hexes EXCEPT ![1] = Put(hexes[1], Str.terrain, JStr(name))])
  IN  CASE edit = "version"  -> Put(state, Str.version, JStr(IncompatibleVersion))
        [] edit = "minor"    -> Put(state, Str.version, JStr(MinorVersion))
        [] edit = "checksum" -> Put(state, Str.checksum,
                                    Num(IF sum > 0 THEN sum - 1 ELSE sum + 1))
        [] edit = "terrain"  ->
             setTerrain(IF Get(hexes[1], Str.terrain).s = Str.forest
                        THEN Str.desert ELSE Str.forest)
        [] edit = "unknownTerrain" -> setTerrain(UnknownTerrain)
        [] edit = "dropCell" -> WithHexes(state, SubSeq(hexes, 1, Len(hexes) - 1))
        [] edit = "noComponents" ->
             Put(state, Str.entities,
                 Arr([ents EXCEPT ![Len(ents)] = Delete(ents[Len(ents)], Str.components)]))
        [] edit = "unknownType" ->
             LET comps == Get(ents[Len(ents)], Str.components).a
             IN  Put(state, Str.entities,
                     Arr([ents EXCEPT ![Len(ents)] =
                            Put(@, Str.components,
                                Arr([comps EXCEPT ![1] =
                                       Put(@, Str.type, JStr(Str.HealthComponent))]))]))
        [] edit = "extraType" ->
             LET comps == Get(ents[Len(ents)], Str.components).a
             IN  Put(state, Str.entities,
                     Arr([ents EXCEPT ![Len(ents)] =
                            Put(@, Str.components,
                                Arr(Append(comps,
                                      Obj(<<Str.type, Str.data>>,
                                          <<JStr(Str.HealthComponent),
                                            Obj(<<>>, <<>>)>>))))]))
        [] OTHER -> state

\* The text of the viewer after the edit.
EditedText(edit) ==
  CASE edit = "none"     -> textarea
    [] edit = "compact"  -> Stringify(captured.state, 0)
    [] edit = "truncate" -> SubSeq(textarea, 1, Len(textarea) - 1)
    [] OTHER             -> Stringify(EditState(captured.state, edit), 2)

EditApplies(edit) ==
  /\ textarea # <<>>
  /\ edit \in {"noComponents", "unknownType", "extraType"}
       => Len(Get(captured.state, Str.entities).a) > 0

\* The report of a load: the edit of the text, what loadState threw, whether it
\* warned, whether restoreState was called and what it threw.
Report(edit, loadThrew, warned, restoreCalled, restoreThrew) ==
  [op |-> "load", input |-> edit, loadThrew |-> loadThrew, warned |-> warned,
   restoreCalled |-> restoreCalled, restoreThrew |-> restoreThrew, reported |-> {}]

\* window.loadStateFromTextarea: an empty viewer is reported and nothing is loaded;
\* otherwise try { state = loadState(jsonString); engine.restoreState(state) }
\* catch { report }, for a text edited as one of edits says.
LoadTextarea(edits) ==
  /\ last = Idle
  /\ \/ /\ Trim(textarea) = <<>>
        /\ last' = Report("empty", "none", FALSE, FALSE, "none")
        /\ UNCHANGED <<hexGrid, entities, nextEntityId>>
     \/ \E edit \in edits :
          /\ EditApplies(edit)
          /\ \E loaded \in {LoadState(Trim(EditedText(edit)))} :
               IF loaded.threw # "none"
               THEN /\ last' = Report(edit, loaded.threw, FALSE, FALSE, "none")
                    /\ UNCHANGED <<hexGrid, entities, nextEntityId>>
               ELSE \E restored \in {RestoreState(loaded.state, hexGrid, EntityManager)} :
                      /\ hexGrid' = restored.grid
                      /\ entities' = restored.em.entities
                      /\ nextEntityId' = restored.em.nextEntityId
                      /\ last' = [Report(edit, "none", loaded.warned, TRUE, restored.threw)
                                     EXCEPT !.reported = restored.reported]
  /\ UNCHANGED <<stateHistory, textarea, captured, ecsLog, calc, more>>

LoadStateFromTextarea == LoadTextarea(Edits)

\* stateManager.saveToHistory(state), for the captured snapshot.
SaveCaptured ==
  /\ last = Idle
  /\ captured.state # Undef
  /\ Len(stateHistory) < MaxSaved
  /\ stateHistory' = SaveToHistory(stateHistory, captured.state)
  /\ UNCHANGED <<hexGrid, entities, nextEntityId, textarea, captured, last, ecsLog, calc, more>>

\* window.clearPerfResults: the report of the load is dropped.  The handlers above
\* run with the panel empty, so that the state after a load shows what that load did.
ClearPerfResults ==
  /\ last # Idle
  /\ last' = Idle
  /\ UNCHANGED <<hexGrid, entities, nextEntityId, stateHistory, textarea, captured, ecsLog, calc, more>>

Next ==
  \/ OnHexClick
  \/ ConsoleDestroyEntity
  \/ ClearAllUnits
  \/ CaptureToTextarea
  \/ LoadStateFromTextarea
  \/ ClearPerfResults

Spec == Init /\ [][Next]_vars

\* The state viewer with the history: units are placed, and snapshots are captured,
\* saved to the history and loaded.
NextLoad ==
  \/ OnHexClick
  \/ CaptureToTextarea
  \/ SaveCaptured
  \/ LoadTextarea(VersionEdits)
  \/ ClearPerfResults

SpecLoad == Init /\ [][NextLoad]_vars

\* The entity restore: units are placed and removed, and snapshots are captured and
\* loaded with component types the registry lacks.
NextRestore ==
  \/ OnHexClick
  \/ ConsoleDestroyEntity
  \/ CaptureToTextarea
  \/ LoadTextarea(TypeEdits)
  \/ ClearPerfResults

SpecRestore == Init /\ [][NextRestore]_vars

(***************************************************************************)
(* The EntityManager on its own: createEntity, destroyEntity and query     *)
(* called in any order.                                                    *)
(***************************************************************************)
\* createEntity is called while nextEntityId is at most this.
MaxCreated == 3

\* The arrays of components createEntity is given.
ComponentArrays ==
  {<<>>,
   <<PositionComponent(Num(1), Num(1))>>,
   <<RenderableComponent(Num(16711680), JStr(Str.circle))>>,
   <<PositionComponent(Num(1), Num(1)),
     RenderableComponent(Num(16711680), JStr(Str.circle))>>}

\* The types query is asked for: those of the registry, and one no entity has.
QueryTypes == ComponentRegistry \cup {Str.type}

CreateEntityCall ==
  /\ nextEntityId <= MaxCreated
  /\ \E components \in ComponentArrays :
       \E em \in {CreateEntity(EntityManager, components)} :
         /\ entities' = em.entities
         /\ nextEntityId' = em.nextEntityId
         /\ issued' = Append(issued, [entityId |-> em.entityId, after |-> destroyed])
  /\ queried' = NoQuery
  /\ UNCHANGED <<destroyed, page, calc, more>>

\* destroyEntity(entityId): an id the store lacks is no error.
DestroyEntityCall ==
  /\ \E entityId \in 1..MaxCreated :
       /\ entities' = DestroyEntity(EntityManager, entityId).entities
       /\ destroyed' = IF MapHas(entities, entityId)
                       THEN destroyed \cup {entityId} ELSE destroyed
  /\ queried' = NoQuery
  /\ UNCHANGED <<nextEntityId, issued, page, calc, more>>

QueryCall ==
  /\ \E componentTypes \in SUBSET QueryTypes :
       queried' = [called |-> TRUE, types |-> componentTypes,
                   results |-> Query(entities, componentTypes, 1)]
  /\ UNCHANGED <<entities, nextEntityId, issued, destroyed, page, calc, more>>

NextECS ==
  \/ CreateEntityCall
  \/ DestroyEntityCall
  \/ QueryCall

SpecECS == Init /\ [][NextECS]_vars

(***************************************************************************)
(* Captures compared: units of two kinds are placed, and snapshots are     *)
(* captured and saved to the history.                                      *)
(***************************************************************************)
\* Two units the page's spawnUnit(shape, color) can arm.
TwoUnits == {[shape |-> Str.square,   color |-> 160060],
             [shape |-> Str.triangle, color |-> 1011092]}

NextChecksum ==
  \/ SpawnOnClick(TwoUnits)
  \/ ClearAllUnits
  \/ CaptureToTextarea
  \/ SaveCaptured

SpecChecksum == Init /\ [][NextChecksum]_vars

(***************************************************************************)
(* The Hex class on its own: its constructor and methods called with       *)
(* coordinates of a bounded range.                                         *)
(***************************************************************************)
\* The integer coordinates are those of -HexSpan..HexSpan.
HexSpan == 2
\* range is called with a distance of at most this.
MaxRange == 2
\* The fractional coordinates are the multiples of 1 / FracDen from -FracSpan to
\* FracSpan.
FracDen == 12
FracSpan == 18

Coords    == (0 - HexSpan)..HexSpan
Fractions == {Rat(k, FracDen) : k \in (0 - FracSpan)..FracSpan}
\* The t of a lerp.
Ratios    == {Whole(0), Rat(1, 4), Rat(1, 3), Rat(1, 2), Whole(1)}
IntHexes  == {Hex(Whole(q), Whole(r)) : q \in Coords, r \in Coords}
\* The ends of a lerp: the hexes next to the origin, and the origin.
NearHexes == {h \in IntHexes : Abs(h.q.n) <= 1 /\ Abs(h.r.n) <= 1}

\* The calls below are made one at a time on their own: each is a pure function of
\* its arguments, and calc holds the call made.
idle == <<hexGrid, entities, nextEntityId, stateHistory, textarea, captured, last,
          ecsLog, more>>

\* new Hex(q, r)
NewHex ==
  /\ calc = NoCall
  /\ \E q \in Fractions, r \in Fractions :
       calc' = Call("Hex", <<q, r>>, <<Hex(q, r)>>, Whole(0), Undef, <<>>)
  /\ UNCHANGED idle

\* a.distanceTo(b), with b.distanceTo(a) and a.equals(b)
DistanceToCall ==
  /\ calc = NoCall
  /\ \E a \in IntHexes, b \in IntHexes :
       calc' = Call("distanceTo", <<a, b, DistanceTo(b, a), Equals(a, b)>>, <<>>,
                    DistanceTo(a, b), Undef, <<>>)
  /\ UNCHANGED idle

\* c.neighbor(direction)
NeighborCall ==
  /\ calc = NoCall
  /\ \E c \in IntHexes, direction \in 0..5 :
       calc' = Call("neighbor", <<c, direction>>, <<Neighbor(c, direction)>>,
                    Whole(0), Undef, <<>>)
  /\ UNCHANGED idle

\* c.neighbors()
NeighborsCall ==
  /\ calc = NoCall
  /\ \E c \in IntHexes :
       calc' = Call("neighbors", <<c>>, Neighbors(c), Whole(0), Undef, <<>>)
  /\ UNCHANGED idle

\* c.range(distance)
RangeCall ==
  /\ calc = NoCall
  /\ \E c \in IntHexes, distance \in 0..MaxRange :
       calc' = Call("range", <<c, distance>>, Range(c, distance), Whole(0), Undef, <<>>)
  /\ UNCHANGED idle

\* Hex.round(q, r)
RoundCall ==
  /\ calc = NoCall
  /\ \E q \in Fractions, r \in Fractions :
       calc' = Call("round", <<q, r>>, <<Round(q, r)>>, Whole(0), Undef, <<>>)
  /\ UNCHANGED idle

\* Hex.lerp(a, b, t)
LerpCall ==
  /\ calc = NoCall
  /\ \E a \in NearHexes, b \in NearHexes, t \in Ratios :
       calc' = Call("lerp", <<a, b, t>>, <<Lerp(a, b, t)>>, Whole(0), Undef, <<>>)
  /\ UNCHANGED idle

\* c.serialize()
SerializeCall ==
  /\ calc = NoCall
  /\ \E c \in IntHexes :
       calc' = Call("serialize", <<c>>, <<>>, Whole(0), HexSerialize(Axial(c)), <<>>)
  /\ UNCHANGED idle

\* Hex.deserialize(data), for the data serialize gives and for data that hold a
\* member s as well, of any value.
DeserializeCall ==
  /\ calc = NoCall
  /\ \E c \in IntHexes, s \in {Undef} \cup {Num(i) : i \in Coords} :
       \E data \in {IF s = Undef THEN HexSerialize(Axial(c))
                    ELSE Put(HexSerialize(Axial(c)), <<115>>, s)} :
         calc' = Call("deserialize", <<c, data>>, <<HexDeserialize(data)>>,
                      Whole(0), data, <<>>)
  /\ UNCHANGED idle

NextHex ==
  \/ NewHex
  \/ DistanceToCall
  \/ NeighborCall
  \/ NeighborsCall
  \/ RangeCall
  \/ RoundCall
  \/ LerpCall
  \/ SerializeCall
  \/ DeserializeCall

SpecHex == Init /\ [][NextHex]_vars

(***************************************************************************)
(* The HexGrid class on its own: grids built for given sizes, and the      *)
(* conversions between their cells and pixels.                             *)
(***************************************************************************)
\* The widths and heights asked for are those of -1..MaxGridDim.
MaxGridDim == 3
\* config.size: none (0), or one of these.
GridSizes == {0, 1, HexSize}
\* The terrain keys Math.random picks, for the cells in the order they are made: the
\* first key for all, or the first two in turn.
TerrainPicks ==
  {[n \in 1..(DefaultWidth * DefaultHeight) |-> TerrainKeys[((n * k) % 2) + 1]] :
     k \in 0..1}
\* What floating point may add to a coordinate: a thousandth at most here, far more
\* than the arithmetic of the conversions loses on the pixels of a grid.
FloatErrors == {Rat(e, 1000) : e \in {-1, 0, 1}}

\* new HexGrid(config), and getHexCount() of the grid
GridNew ==
  /\ calc = NoCall
  /\ \E size \in GridSizes, width \in -1..MaxGridDim, height \in -1..MaxGridDim,
        terrainOf \in TerrainPicks :
       \E grid \in {HexGrid(size, width, height, terrainOf)} :
         calc' = Call("HexGrid", <<size, width, height>>, <<>>,
                      Whole(GetHexCount(grid)), Undef, grid)
  /\ UNCHANGED idle

\* pixelToHex(hexToPixel(c)) for a cell c of a grid, and hexToPixel of the result
PixelRoundTrip ==
  /\ calc = NoCall
  /\ \E size \in GridSizes, width \in 1..MaxGridDim, height \in 1..MaxGridDim,
        terrainOf \in TerrainPicks :
       \E grid \in {HexGrid(size, width, height, terrainOf)} :
         \E i \in 1..Len(grid.hexes), eq \in FloatErrors, er \in FloatErrors :
           \E c \in {Hex(Whole(grid.hexes[i].val.hex.q), Whole(grid.hexes[i].val.hex.r))} :
             \E pixel \in {HexToPixel(grid, c)} :
               \E back \in {PixelToHex(grid, pixel.x, pixel.y, [q |-> eq, r |-> er])} :
                 calc' = Call("pixelToHex",
                              <<c, pixel, HexToPixel(grid, back), grid.size,
                                [q |-> eq, r |-> er]>>,
                              <<back>>, Whole(0), Undef, <<>>)
  /\ UNCHANGED idle

NextGrid ==
  \/ GridNew
  \/ PixelRoundTrip

SpecGrid == Init /\ [][NextGrid]_vars

(***************************************************************************)
(* The properties.                                                         *)
(***************************************************************************)
Loaded(inputs) == last.op = "load" /\ last.input \in inputs
Restored == last.op = "load" /\ last.restoreCalled /\ last.restoreThrew = "none"

\* The name of the terrain of the cell at a coordinate of a cell map.
TerrainNameAt(hexes, key) == TerrainTypes[MapGet(hexes, key).terrain].name

\* C1: a snapshot that is captured, written as JSON text (pretty-printed or
\* compact), loaded and restored gives an entity store with the same number of
\* entities, the same ids and the same components for each id, and a grid with the
\* same number of cells and the same terrain name at every coordinate, as when it
\* was captured.
SnapshotRoundTrip ==
  Loaded({"none", "compact"}) =>
    /\ Restored
    /\ Len(entities) = Len(captured.entities)
    /\ MapKeys(entities) = MapKeys(captured.entities)
    /\ \A entityId \in MapKeys(entities) :
         MapGet(entities, entityId) = MapGet(captured.entities, entityId)
    /\ Len(hexGrid.hexes) = Len(captured.hexes)
    /\ MapKeys(hexGrid.hexes) = MapKeys(captured.hexes)
    /\ \A key \in MapKeys(captured.hexes) :
         TerrainNameAt(hexGrid.hexes, key) = TerrainNameAt(captured.hexes, key)

\* A compact snapshot of two units on a grid of two terrains has been restored.
SnapshotRoundTripWitness ==
  /\ Loaded({"compact"}) /\ Restored
  /\ Len(entities) = 2
  /\ hexGrid.hexes[1].val.terrain # hexGrid.hexes[2].val.terrain

FailedLoadMutatesNothing ==
  [][(last'.op = "load" /\ last'.input \in {"truncate", "version"})
       => /\ last'.loadThrew \in {"SyntaxError", "IncompatibleVersion"}
          /\ ~last'.restoreCalled
          /\ UNCHANGED <<hexGrid, entities, nextEntityId, stateHistory>>]_vars

\* A snapshot of version 2.0.0 has been refused with a unit in the store and a state
\* in the history.
FailedLoadWitness ==
  /\ Loaded({"version"}) /\ last.loadThrew = "IncompatibleVersion"
  /\ Len(entities) > 0 /\ Len(stateHistory) > 0
  /\ captured.entities # entities

\* C4: a snapshot of a compatible version whose stored checksum is not the one
\* recomputed is loaded all the same: loadState warns, does not throw and returns the
\* snapshot, which is then restored; and whenever loadState warns it has not thrown.
ChecksumMismatchIsSoft ==
  /\ Loaded({"checksum"}) =>
       /\ last.loadThrew = "none" /\ last.warned
       /\ Restored
       /\ entities = captured.entities
  /\ Loaded({"terrain", "unknownTerrain", "dropCell", "noComponents"}) =>
       last.loadThrew = "none" /\ last.restoreCalled
  /\ last.warned => last.loadThrew = "none" /\ last.restoreCalled

\* A snapshot with another checksum has been loaded, with a warning, and its unit
\* restored.
ChecksumMismatchWitness ==
  Loaded({"checksum"}) /\ last.warned /\ Len(entities) > 0

\* C5: a captured snapshot whose text is loaded as it was written, pretty-printed or
\* compact, gives no checksum warning: the checksum recomputed is the stored one.
UntamperedSnapshotVerifies ==
  Loaded({"none", "compact"}) => last.loadThrew = "none" /\ ~last.warned

\* The pretty-printed snapshot of a unit has been loaded without a warning.
UntamperedSnapshotWitness ==
  Loaded({"none"}) /\ ~last.warned /\ Len(captured.entities) = 1

\* The members of a snapshot a capture takes from the program and the clock.
SameContent(a, b) ==
  \A key \in {Str.timestamp, Str.grid, Str.entities, Str.viewport} :
    Get(a, key) = Get(b, key)

\* C6: the checksum is a function of the snapshot without its checksum member: two
\* captures of the same grid, entities, viewport and timestamp have the same
\* checksum, whatever else the program holds, and calculateChecksum gives the
\* checksum of the capture whatever the checksum member of its argument is (the one
\* stored, or 0).
ChecksumIsOfContent ==
  captured.state # Undef =>
    LET sum == Get(captured.state, Str.checksum)
    IN  /\ \A i \in 1..Len(stateHistory) :
             SameContent(stateHistory[i], captured.state)
               => Get(stateHistory[i], Str.checksum) = sum
        /\ Num(CalculateChecksum(captured.state)) = sum
        /\ Num(CalculateChecksum(Put(captured.state, Str.checksum, Num(0)))) = sum

\* A second capture of the same content as the one in the history, with a unit.
ChecksumIsOfContentWitness ==
  /\ captured.state # Undef /\ Len(stateHistory) = 1
  /\ SameContent(stateHistory[1], captured.state)
  /\ Len(captured.entities) > 0

\* Two snapshots of the same timestamp, the same cells and the same entity ids that
\* differ in the terrain of a cell or in the components of an entity.
DiffersInData(a, b) ==
  LET cellsA == Get(Get(a, Str.grid), Str.hexes).a
      cellsB == Get(Get(b, Str.grid), Str.hexes).a
      entsA  == Get(a, Str.entities).a
      entsB  == Get(b, Str.entities).a
  IN  /\ Get(a, Str.timestamp) = Get(b, Str.timestamp)
      /\ Len(cellsA) = Len(cellsB) /\ Len(entsA) = Len(entsB)
      /\ \A i \in 1..Len(cellsA) : Get(cellsA[i], Str.hex) = Get(cellsB[i], Str.hex)
      /\ \A i \in 1..Len(entsA) : Get(entsA[i], Str.entityId) = Get(entsB[i], Str.entityId)
      /\ \/ \E i \in 1..Len(cellsA) :
              Get(cellsA[i], Str.terrain) # Get(cellsB[i], Str.terrain)
         \/ \E i \in 1..Len(entsA) :
              Get(entsA[i], Str.components) # Get(entsB[i], Str.components)

\* C7: two snapshots of the same timestamp that differ in the terrain of a cell or
\* in the component data of an entity have different checksums.
ChecksumSensitive ==
  \A i \in 1..Len(stateHistory) :
    (captured.state # Undef /\ DiffersInData(stateHistory[i], captured.state))
      => Get(stateHistory[i], Str.checksum) # Get(captured.state, Str.checksum)

\* C8: every id createEntity returns is greater than every id it returned before,
\* and is none of the ids destroyed before the call.
EntityIdsNeverReused ==
  \A j \in 1..Len(issued) :
    /\ \A i \in 1..(j - 1) : issued[i].entityId < issued[j].entityId
    /\ issued[j].entityId \notin issued[j].after

\* An entity has been created after another one was destroyed.
EntityIdsWitness ==
  \E j \in 1..Len(issued) : issued[j].after # {} /\ MapHas(entities, issued[j].entityId)

\* The greatest of a set of ids, 0 for none.
MaxOf(ids) == IF ids = {} THEN 0 ELSE CHOOSE m \in ids : \A id \in ids : id <= m

\* C9: after a restore, the store holds exactly the entities of the payload, each
\* under the entityId of its record and with the components of its record, and
\* nextEntityId is the greatest of these ids plus one (1 for an empty payload), which
\* is greater than every restored id.
RestorePreservesIds ==
  Restored =>
    LET payload == Get(captured.state, Str.entities).a
        ids     == {Get(payload[i], Str.entityId).n : i \in 1..Len(payload)}
    IN  /\ MapKeys(entities) = ids
        /\ Len(entities) = Len(payload)
        /\ \A i \in 1..Len(payload) :
             /\ MapHas(entities, Get(payload[i], Str.entityId).n)
             /\ SerializeComponents(MapGet(entities, Get(payload[i], Str.entityId).n))
                  = Get(payload[i], Str.components)
        /\ nextEntityId = MaxOf(ids) + 1
        /\ \A id \in ids : nextEntityId > id

\* A snapshot holding entity 2 alone has been restored.
RestorePreservesIdsWitness ==
  Restored /\ MapKeys(entities) = {2} /\ nextEntityId = 3

\* The types of the components of an entity.
TypesOf(componentMap) == {componentMap[i].key : i \in 1..Len(componentMap)}

\* C10: query returns, once each and with its component map, exactly the entities of
\* the store whose types include every type asked for: all of them when no type is
\* asked for, and never an entity that was destroyed.
QueryIsExact ==
  queried.called =>
    LET results  == queried.results
        expected == {entityId \in MapKeys(entities) :
                       queried.types \subseteq TypesOf(MapGet(entities, entityId))}
    IN  /\ {results[i].entityId : i \in 1..Len(results)} = expected
        /\ Len(results) = Cardinality(expected)
        /\ \A i \in 1..Len(results) :
             /\ results[i].components = MapGet(entities, results[i].entityId)
             /\ results[i].entityId \notin destroyed
        /\ queried.types = {} => Len(results) = Len(entities)

\* Two entities with a position and a renderable were created, the first destroyed,
\* and the query for PositionComponent returned the second alone.
QueryIsExactWitness ==
  /\ queried.called /\ queried.types = {Str.PositionComponent}
  /\ 1 \in destroyed
  /\ Len(queried.results) = 1 /\ queried.results[1].entityId = 2
  /\ TypesOf(queried.results[1].components) = ComponentRegistry

\* The records of an entity payload after the edit the load was given.
LoadedPayload == Get(EditState(captured.state, last.input), Str.entities).a

\* The components of a record whose type the registry has.
KnownComponents(record) ==
  SelectSeq(Get(record, Str.components).a,
            LAMBDA c : Get(c, Str.type).s \in ComponentRegistry)

\* The types of the records of a payload that the registry lacks.
SkippedTypes(payload) ==
  {Get(Get(payload[i], Str.components).a[j], Str.type).s :
     <<i, j>> \in {<<i, j>> \in (1..Len(payload)) \X (1..3) :
                     /\ j <= Len(Get(payload[i], Str.components).a)
                     /\ Get(Get(payload[i], Str.components).a[j], Str.type).s
                          \notin ComponentRegistry}}

\* After a restore the store holds the entities of the payload and no other, each
\* with the components of its record whose type the registry has; a type it lacks
\* does not make the restore throw.
RestoreReplacesStore ==
  (last.op = "load" /\ last.restoreCalled) =>
    /\ last.restoreThrew = "none"
    /\ MapKeys(entities) = {Get(LoadedPayload[i], Str.entityId).n :
                              i \in 1..Len(LoadedPayload)}
    /\ Len(entities) = Len(LoadedPayload)
    /\ \A i \in 1..Len(LoadedPayload) :
         SerializeComponents(MapGet(entities, Get(LoadedPayload[i], Str.entityId).n))
           = Arr(KnownComponents(LoadedPayload[i]))

\* C11: the entity restore replaces the store by the entities of the snapshot (the
\* entities held before are gone), skips a component whose type the registry lacks
\* without throwing while the entity and its other components are restored, and
\* reports each type it skipped.
EntityRestoreTolerant ==
  /\ RestoreReplacesStore
  /\ (last.op = "load" /\ last.restoreCalled)
       => SkippedTypes(LoadedPayload) \subseteq last.reported

\* C15: every hex the constructor, neighbor, neighbors, range, round, lerp or
\* deserialize gives has q + r + s = 0; serialize gives q and r and nothing else, and
\* the s of a deserialized hex is -q - r of the data, whatever member s the data hold.
CubeIdentity ==
  /\ \A i \in 1..Len(calc.hexes) :
       RAdd(RAdd(calc.hexes[i].q, calc.hexes[i].r), calc.hexes[i].s) = Whole(0)
  /\ calc.op = "serialize" =>
       /\ calc.json.k = <<Str.q, Str.r>>
       /\ calc.json.a = <<Num(calc.args[1].q.n), Num(calc.args[1].r.n)>>
  /\ calc.op = "deserialize" =>
       /\ calc.hexes[1].q = calc.args[1].q /\ calc.hexes[1].r = calc.args[1].r
       /\ calc.hexes[1].s = Whole((0 - Get(calc.json, Str.q).n) - Get(calc.json, Str.r).n)

\* A hex has been deserialized from data whose member s is not -q - r.
CubeIdentityWitness ==
  /\ calc.op = "deserialize"
  /\ Get(calc.json, <<115>>) = Num(2)
  /\ calc.hexes[1] = Hex(Whole(1), Whole(1))

\* C16: the distance between two hexes of integer coordinates is a non-negative
\* integer, (|dq| + |dq + dr| + |dr|) / 2, the same in both directions, and 0 exactly
\* when the two hexes are equal.
DistanceIsSymmetric ==
  calc.op = "distanceTo" =>
    LET a  == calc.args[1]
        b  == calc.args[2]
        dq == a.q.n - b.q.n
        dr == a.r.n - b.r.n
    IN  /\ calc.value = calc.args[3]
        /\ IsWhole(calc.value) /\ calc.value.n >= 0
        /\ 2 * calc.value.n = Abs(dq) + Abs(dq + dr) + Abs(dr)
        /\ (calc.value = Whole(0)) <=> calc.args[4]
        /\ calc.args[4] <=> (a = b)

\* The distance of two hexes that differ in q and in r has been taken: 2.
DistanceWitness ==
  /\ calc.op = "distanceTo"
  /\ calc.args[1] = Hex(Whole(1), Whole(1)) /\ calc.args[2] = Hex(Whole(0), Whole(0))
  /\ calc.value = Whole(2)

\* The offsets of the six directions, E, NE, NW, W, SW, SE, as the specification
\* lists them.
Offsets == << <<1, 0>>, <<1, -1>>, <<0, -1>>, <<-1, 0>>, <<-1, 1>>, <<0, 1>> >>

\* The hexes of integer coordinates at most span away from c in q and in r.
Around(c, span) ==
  {Hex(Whole(c.q.n + dq), Whole(c.r.n + dr)) :
     dq \in (0 - span)..span, dr \in (0 - span)..span}

\* C17: the neighbor of c in direction d is c plus the d-th offset of the table, at
\* distance 1 from c; the six neighbors are distinct, they are the hexes at distance
\* 1 from c, and neighbors() lists them in the order of the directions.
NeighborsAreAdjacent ==
  /\ calc.op = "neighbor" =>
       LET c == calc.args[1]
           d == calc.args[2]
       IN  /\ calc.hexes[1].q = Whole(c.q.n + Offsets[d + 1][1])
           /\ calc.hexes[1].r = Whole(c.r.n + Offsets[d + 1][2])
           /\ DistanceTo(calc.hexes[1], c) = Whole(1)
  /\ calc.op = "neighbors" =>
       LET c == calc.args[1]
       IN  /\ Len(calc.hexes) = 6
           /\ \A i \in 1..6 :
                /\ calc.hexes[i].q = Whole(c.q.n + Offsets[i][1])
                /\ calc.hexes[i].r = Whole(c.r.n + Offsets[i][2])
                /\ DistanceTo(calc.hexes[i], c) = Whole(1)
           /\ \A i \in 1..6, j \in 1..6 : i # j => calc.hexes[i] # calc.hexes[j]
           /\ {calc.hexes[i] : i \in 1..6}
                = {h \in Around(c, 2) : DistanceTo(c, h) = Whole(1)}

\* The six neighbors of a hex other than the origin have been listed.
NeighborsWitness ==
  /\ calc.op = "neighbors"
  /\ calc.args[1] = Hex(Whole(1), Whole(-2))
  /\ calc.hexes[5] = Hex(Whole(0), Whole(-1))

\* C18: range(n), n >= 0, lists without repetition the hexes at distance at most n
\* from c: 3 * n * (n + 1) + 1 of them, and c alone for n = 0.
RangeIsDisk ==
  calc.op = "range" =>
    LET c == calc.args[1]
        n == calc.args[2]
    IN  /\ Len(calc.hexes) = 3 * n * (n + 1) + 1
        /\ \A i \in 1..Len(calc.hexes), j \in 1..Len(calc.hexes) :
             i # j => calc.hexes[i] # calc.hexes[j]
        /\ {calc.hexes[i] : i \in 1..Len(calc.hexes)}
             = {h \in Around(c, n + 1) : RLess(DistanceTo(c, h), Whole(n + 1))}
        /\ n = 0 => calc.hexes = <<c>>

\* The 19 hexes within 2 of a hex have been listed.
RangeWitness ==
  calc.op = "range" /\ calc.args[2] = 2 /\ Len(calc.hexes) = 19

\* The rounding errors of the three cube coordinates of the point (q, r).
RoundingErrors(q, r) ==
  LET s == RSub(RNeg(q), r)
  IN  [q |-> MathAbs(RSub(MathRound(q), q)),
       r |-> MathAbs(RSub(MathRound(r), r)),
       s |-> MathAbs(RSub(MathRound(s), s))]

\* The cube distance from the point (q, r) to the hex h.
PointDistance(q, r, h) ==
  RDiv(RAdd(RAdd(MathAbs(RSub(q, h.q)), MathAbs(RSub(r, h.r))),
            MathAbs(RSub(RSub(RNeg(q), r), h.s))),
       Whole(2))

\* C19: Hex.round gives a hex of integer q and r with s = -q - r, no hex of integer
\* coordinates is nearer to the point in cube distance, two of its cube coordinates
\* are the point's rounded and the third, one whose rounding error is the greatest,
\* is made from these two; a point of integer coordinates is returned as it is.
RoundIsNearest ==
  calc.op = "round" =>
    LET q   == calc.args[1]
        r   == calc.args[2]
        s   == RSub(RNeg(q), r)
        out == calc.hexes[1]
        err == RoundingErrors(q, r)
    IN  /\ IsWhole(out.q) /\ IsWhole(out.r)
        /\ out.s = RSub(RNeg(out.q), out.r)
        /\ \A h \in Around(out, 2) :
             ~RLess(PointDistance(q, r, h), PointDistance(q, r, out))
        /\ \/ /\ out.r = MathRound(r) /\ out.s = MathRound(s)
              /\ ~RLess(err.q, err.r) /\ ~RLess(err.q, err.s)
           \/ /\ out.q = MathRound(q) /\ out.s = MathRound(s)
              /\ ~RLess(err.r, err.q) /\ ~RLess(err.r, err.s)
           \/ /\ out.q = MathRound(q) /\ out.r = MathRound(r)
              /\ ~RLess(err.s, err.q) /\ ~RLess(err.s, err.r)
        /\ (IsWhole(q) /\ IsWhole(r)) => (out.q = q /\ out.r = r)

\* A point whose q and r round to 0 and whose s rounds to -1 has been rounded to the
\* hex (0, 1).
RoundWitness ==
  /\ calc.op = "round"
  /\ calc.args = <<Rat(5, 12), Rat(5, 12)>>
  /\ calc.hexes[1] = Hex(Whole(0), Whole(1))

\* The coordinates of the cells of a grid of w columns and h rows.
OffsetCells(w, h) ==
  {<<col - (row \div 2), row>> : col \in 0..(w - 1), row \in 0..(h - 1)}

\* C12: a grid of width w and height h holds exactly the cells (col - floor(row / 2),
\* row) for 0 <= col < w and 0 <= row < h, under their keys; these are w * h distinct
\* coordinates, getHexCount() is w * h, and for w = h = 2 the cells are (0,0), (1,0),
\* (0,1), (1,1).
GridGeneration ==
  (calc.op = "HexGrid" /\ calc.grid.width > 0 /\ calc.grid.height > 0) =>
    LET w     == calc.grid.width
        h     == calc.grid.height
        hexes == calc.grid.hexes
    IN  /\ MapKeys(hexes) = {HexKey(c[1], c[2]) : c \in OffsetCells(w, h)}
        /\ {<<hexes[i].val.hex.q, hexes[i].val.hex.r>> : i \in 1..Len(hexes)}
             = OffsetCells(w, h)
        /\ \A i \in 1..Len(hexes) :
             hexes[i].key = HexKey(hexes[i].val.hex.q, hexes[i].val.hex.r)
        /\ Cardinality(OffsetCells(w, h)) = w * h
        /\ Cardinality(MapKeys(hexes)) = w * h
        /\ calc.value = Whole(w * h)
        /\ (w = 2 /\ h = 2) =>
             OffsetCells(w, h) = {<<0, 0>>, <<1, 0>>, <<0, 1>>, <<1, 1>>}

\* A grid of 3 columns and 3 rows has been built: its third row starts at q = -1.
GridGenerationWitness ==
  /\ calc.op = "HexGrid" /\ calc.grid.width = 3 /\ calc.grid.height = 3
  /\ MapHas(calc.grid.hexes, HexKey(-1, 2))
  /\ calc.value = Whole(9)

\* C13: the constructor gives no grid when the width or the height asked for is 0 or
\* negative.
GridGenerationFails ==
  calc.op = "HexGrid" => (calc.args[2] > 0 /\ calc.args[3] > 0)

\* C20: for a cell c of a generated grid pixelToHex(hexToPixel(c)) is c, and so
\* hexToPixel of it is hexToPixel(c); the backward matrix of the layout is the
\* inverse of the forward one.
PixelRoundTripExact ==
  /\ calc.op = "pixelToHex" =>
       /\ calc.hexes[1] = calc.args[1]
       /\ calc.args[3] = calc.args[2]
  /\ LET M    == Orientation
         one  == FromRat(Whole(1))
         zero == FromRat(Whole(0))
     IN  /\ SAdd(SMul(M.b0, M.f0), SMul(M.b1, M.f2)) = one
         /\ SAdd(SMul(M.b0, M.f1), SMul(M.b1, M.f3)) = zero
         /\ SAdd(SMul(M.b2, M.f0), SMul(M.b3, M.f2)) = zero
         /\ SAdd(SMul(M.b2, M.f1), SMul(M.b3, M.f3)) = one

\* The cell (-1, 2) of a grid of hex size 30 has been taken to its pixel
\* (0, 90) and back, with an error on both coordinates.
PixelRoundTripWitness ==
  /\ calc.op = "pixelToHex"
  /\ calc.args[1] = Hex(Whole(-1), Whole(2))
  /\ calc.args[2] = [x |-> FromRat(Whole(0)), y |-> FromRat(Whole(90))]
  /\ calc.args[4] = 30
  /\ calc.args[5] = [q |-> Rat(1, 1000), r |-> Rat(-1, 1000)]
  /\ calc.hexes[1] = Hex(Whole(-1), Whole(2))

\* C14: restoring a grid snapshot whose cell list is not width * height long, or that
\* names a terrain the terrain table lacks, fails with a validation error and leaves
\* the cell map as it was; a snapshot that is accepted replaces the cell map: the
\* grid then holds the cells of the snapshot and no other.
GridRestoreValidates ==
  [][/\ (last'.op = "load" /\ last'.input \in {"unknownTerrain", "dropCell"}) =>
          /\ last'.restoreCalled /\ last'.restoreThrew = "ValidationError"
          /\ UNCHANGED hexGrid
     /\ (last'.op = "load" /\ last'.restoreCalled
           /\ last'.restoreThrew # "ValidationError") =>
          /\ last'.input \notin {"unknownTerrain", "dropCell"}
          /\ GridSerialize(hexGrid')
               = Get(EditState(captured.state, last'.input), Str.grid)]_vars

\* A snapshot naming an unknown terrain has been refused after a snapshot with
\* another terrain for its first cell had replaced the cells of the capture.
GridRestoreWitness ==
  /\ Loaded({"unknownTerrain"}) /\ last.restoreThrew = "ValidationError"
  /\ hexGrid.hexes # captured.hexes
  /\ Len(hexGrid.hexes) = Len(captured.hexes)

\* The four bytes of a signed 32-bit integer in two's complement, the lowest first.
BytesOf(int32) == [i \in 0..3 |-> (int32 \div (256 ^ i)) % 256]

\* The bytes of 31 * h + code modulo 2^32, by long multiplication on the bytes of h.
RECURSIVE TimesThirtyOnePlus(_, _, _)
TimesThirtyOnePlus(bytes, carry, i) ==
  IF i > 3 THEN <<>>
  ELSE LET t == 31 * bytes[i] + carry
       IN  <<t % 256>> \o TimesThirtyOnePlus(bytes, t \div 256, i + 1)

Int32Min == (0 - 32768) * W16
Int32Max == 32767 * W16 + (W16 - 1)

\* The text calculateChecksum hashes for a snapshot.
HashedText(state) == Stringify(Delete(state, Str.checksum), 0)

\* The terms h_lo .. h_hi the loop of calculateChecksum goes through over the code
\* units lo..hi of text, from the term hash before them.
RECURSIVE HashTerms(_, _, _, _)
HashTerms(text, lo, hi, hash) ==
  IF lo > hi THEN <<>>
  ELSE IF lo = hi THEN <<HashStep(hash, text[lo])>>
  ELSE CHOOSE terms \in {left \o HashTerms(text, (lo + hi) \div 2 + 1, hi, left[Len(left)]) :
                          left \in {HashTerms(text, lo, (lo + hi) \div 2, hash)}} : TRUE

\* C22: the checksum of a captured snapshot is the last term of the recurrence
\* h_0 = 0, h_(i+1) = 31 * h_i + code_i wrapped into the signed 32-bit range, over
\* the code units of the hashed text, and every term lies in [-2^31, 2^31 - 1].
ChecksumIsInt32 ==
  captured.state # Undef =>
    \A text \in {HashedText(captured.state)} :
      \A h \in {<<0>> \o HashTerms(text, 1, Len(text), 0)} :
        /\ \A i \in 1..Len(text) :
             /\ Int32Min <= h[i + 1] /\ h[i + 1] <= Int32Max
             /\ [k \in 0..3 |-> TimesThirtyOnePlus(BytesOf(h[i]), text[i], 0)[k + 1]]
                  = BytesOf(h[i + 1])
        /\ Get(captured.state, Str.checksum) = Num(h[Len(text) + 1])

\* A snapshot has been captured whose hash wrapped on the way, and whose checksum
\* is negative.
ChecksumIsInt32Witness ==
  /\ captured.state # Undef
  /\ Get(captured.state, Str.checksum).n < 0
  /\ \E text \in {HashedText(captured.state)} :
       \E i \in 1..Len(text) :
         HashLoop(text, 1, i, 0) > Int32Max \div 31 + 1

(***************************************************************************)
(* The state history on its own: saveToHistory, clearHistory and           *)
(* getPreviousState called in any order.                                   *)
(***************************************************************************)
\* saveToHistory is called while fewer snapshots than this were saved since the
\* history was last emptied.
MaxSaves == 102

\* ToBoolean of a value is false.
Falsy(v) ==
  \/ v.t \in {"undef", "null"}
  \/ v.t \in {"num", "bool"} /\ v.n = 0
  \/ v.t = "str" /\ v.s = <<>>

\* getPreviousState: this.stateHistory[this.stateHistory.length - 1] || null; the
\* element at -1 of an empty array is undefined.
GetPreviousState(history) ==
  LET previous == IF Len(history) = 0 THEN Undef ELSE history[Len(history)]
  IN  IF Falsy(previous) THEN Null ELSE previous

\* clearHistory: this.stateHistory = [].
ClearHistory == <<>>

\* stateManager.saveToHistory(stateManager.captureState(...)): the k-th snapshot
\* saved is captured at time k.
SaveToHistoryCall ==
  /\ Len(saves) < MaxSaves
  /\ \E now \in {Len(saves) + 1} :
       \E state \in {CaptureState(hexGrid, entities, InitialViewport, now)} :
         /\ stateHistory' = SaveToHistory(stateHistory, state)
         /\ saves' = Append(saves, state)
  /\ calc' = NoCall
  /\ UNCHANGED <<hexGrid, entities, nextEntityId, textarea, captured, last, ecsLog,
                 engine, pointer, render, heap, held>>

ClearHistoryCall ==
  /\ stateHistory' = ClearHistory
  /\ saves' = <<>>
  /\ calc' = NoCall
  /\ UNCHANGED <<hexGrid, entities, nextEntityId, textarea, captured, last, ecsLog,
                 engine, pointer, render, heap, held>>

GetPreviousStateCall ==
  /\ calc' = Call("getPreviousState", <<>>, <<>>, Whole(0),
                  GetPreviousState(stateHistory), <<>>)
  /\ UNCHANGED idle

NextHistory ==
  \/ SaveToHistoryCall
  \/ ClearHistoryCall
  \/ GetPreviousStateCall

SpecHistory == Init /\ [][NextHistory]_vars

\* The last n elements of a sequence, all of them when it has fewer.
LastOf(seq, n) == SubSeq(seq, Max(1, Len(seq) - n + 1), Len(seq))

\* C29: the history never holds more than maxHistorySize snapshots; it holds the
\* most recently saved ones, in the order they were saved; and getPreviousState
\* returns the snapshot saved last, or null when none was saved since the history
\* was emptied.
HistoryIsBoundedFifo ==
  /\ Len(stateHistory) <= MaxHistorySize
  /\ stateHistory = LastOf(saves, MaxHistorySize)
  /\ calc.op = "getPreviousState" =>
       calc.json = IF saves = <<>> THEN Null ELSE saves[Len(saves)]

\* More snapshots than the history holds have been saved, the oldest ones are gone,
\* and getPreviousState has returned the newest.
HistoryIsBoundedFifoWitness ==
  /\ Len(saves) > MaxHistorySize
  /\ Len(stateHistory) = MaxHistorySize
  /\ stateHistory[1] = saves[Len(saves) - MaxHistorySize + 1]
  /\ calc.op = "getPreviousState" /\ calc.json = saves[Len(saves)]

\* Math.sqrt(dx * dx + dy * dy) > limit
Farther(a, b, limit) ==
  (a.x - b.x) * (a.x - b.x) + (a.y - b.y) * (a.y - b.y) > limit * limit

\* Math.sign
Sign(x) == IF x > 0 THEN 1 ELSE IF x < 0 THEN -1 ELSE 0

\* The first movement of a drag closes the inspector; every movement pans.
Pan(eng, e) ==
  UpdateViewportTransform(
    [(IF ~eng.hasDragged THEN CloseInspector(eng) ELSE eng)
       EXCEPT !.hasDragged = TRUE,
              !.viewportPos = Point(e.x - eng.dragStart.x, e.y - eng.dragStart.y)])

\* The points of the canvas the mouse and the fingers are at: the centre of the cell
\* (0, 0) before any pan, the point CLICK_THRESHOLD to its right, a point of the
\* cell (1, 0), and a point off the grid.
PointsAt(dxs) == {Point(WindowWidth \div 2 + dx, WindowHeight \div 2) : dx \in dxs}
WheelDeltas == {-100, 100}

\* A zoom is followed while the scale asked for is within reach tenths of 1.
InReach(asked, reach) == ~RLess(Rat(reach, 10), MathAbs(RSub(asked, Whole(1))))

\* A drag is followed while the viewport stays within this distance of its place
\* after initialize.
MaxPan == 50
\* The fingers the canvas is touched with.
MaxFingers == 2

InPanRange(eng, e) ==
  /\ Abs(e.x - eng.dragStart.x - WindowWidth \div 2) <= MaxPan
  /\ Abs(e.y - eng.dragStart.y - WindowHeight \div 2) <= MaxPan

\* What the handlers of this section leave alone.
engineRest == <<hexGrid, entities, nextEntityId, stateHistory, textarea, captured, last,
                ecsLog, calc, saves, render, heap, held>>

\* Whether the handler that made eng of the engine hid the tooltip of an inspector.
Hid(eng) ==
  IF engine.inspectedHex # Null /\ eng.inspectedHex = Null THEN "hide" ELSE "none"

Handled(eng, type, asked) ==
  /\ engine' = eng
  /\ pointer' = [pointer EXCEPT !.event = Event(type, asked, Hid(eng))]
  /\ UNCHANGED engineRest

\* wheel
Wheel(reach) ==
  /\ pointer.click = NoPoint
  /\ \E deltaY \in WheelDeltas :
       \E asked \in {RAdd(engine.scale, RMul(Whole(0 - Sign(deltaY)), Rat(1, 10)))} :
         /\ InReach(asked, reach)
         /\ Handled(Zoom(CloseInspector(engine), ClampScale(asked)),
                 "wheel", asked)

\* mousedown
MouseDown(points) ==
  /\ pointer.click = NoPoint
  /\ \E e \in points :
       /\ engine' = [engine EXCEPT !.isDragging = TRUE, !.hasDragged = FALSE,
                                   !.dragStart = Point(e.x - engine.viewportPos.x,
                                                       e.y - engine.viewportPos.y),
                                   !.mouseDownPos = e]
       /\ pointer' = [pointer EXCEPT !.armed = TRUE,
                        !.event = Event("mousedown", engine.scale, "none")]
  /\ UNCHANGED engineRest

\* mousemove
MouseMove(points) ==
  /\ pointer.click = NoPoint
  /\ \E e \in points :
       /\ engine.isDragging => InPanRange(engine, e)
       /\ Handled(IF engine.isDragging THEN Pan(engine, e) ELSE engine,
                  "mousemove", engine.scale)

\* mouseup, which a click at the same point follows when the button went down on
\* the canvas.
MouseUp(points) ==
  /\ pointer.click = NoPoint
  /\ \E e \in points :
       /\ engine' = [engine EXCEPT !.isDragging = FALSE, !.hasDragged = FALSE]
       /\ pointer' = [pointer EXCEPT !.armed = FALSE,
                        !.click = IF pointer.armed THEN e ELSE NoPoint,
                        !.event = Event("mouseup", engine.scale, "none")]
  /\ UNCHANGED engineRest

\* mouseleave; the button may be released outside the canvas.
MouseLeave ==
  /\ pointer.click = NoPoint
  /\ engine' = [engine EXCEPT !.isDragging = FALSE, !.hasDragged = FALSE]
  /\ \E armed \in {pointer.armed, FALSE} :
       pointer' = [pointer EXCEPT !.armed = armed,
                     !.event = Event("mouseleave", engine.scale, "none")]
  /\ UNCHANGED engineRest

\* click
Click ==
  /\ pointer.click # NoPoint
  /\ \E e \in {pointer.click} :
       \E done \in {IF Farther(e, engine.mouseDownPos, CLICK_THRESHOLD)
                    THEN [eng |-> engine, invoked |-> "none"]
                    ELSE HexClick(engine, hexGrid, e.x, e.y)} :
         /\ engine' = done.eng
         /\ pointer' = [pointer EXCEPT !.click = NoPoint,
                          !.event = Event("click", engine.scale,
                                          done.invoked)]
  /\ UNCHANGED engineRest

\* The fingers that come down together: one, or two at different points.
Landings(points) ==
  {<<p>> : p \in points} \cup {pq \in points \X points : pq[1] # pq[2]}

\* touchstart: e.touches is the fingers that were down and those that came down.
TouchStart(points) ==
  /\ pointer.click = NoPoint
  /\ \E landed \in Landings(points) :
       /\ Len(pointer.touches) + Len(landed) <= MaxFingers
       /\ \A i \in 1..Len(landed), j \in 1..Len(pointer.touches) :
            landed[i] # pointer.touches[j]
       /\ \E touches \in {pointer.touches \o landed} :
            \E eng \in {IF Len(touches) = 1
                        THEN [engine EXCEPT
                                !.isDragging = TRUE, !.hasDragged = FALSE,
                                !.dragStart = Point(touches[1].x - engine.viewportPos.x,
                                                    touches[1].y - engine.viewportPos.y),
                                !.touchStartPos = touches[1]]
                        ELSE IF Len(touches) = 2
                        THEN [CloseInspector(engine) EXCEPT
                                !.lastTouchDistance = Distance(touches[1], touches[2])]
                        ELSE engine} :
              /\ engine' = eng
              /\ pointer' = [pointer EXCEPT
                               !.touches = touches,
                               !.multi = (pointer.touches # <<>> /\ pointer.multi)
                                           \/ Len(touches) >= 2,
                               !.event = Event("touchstart", engine.scale, Hid(eng))]
  /\ UNCHANGED engineRest

\* touchmove: a finger moves to another point.
TouchMove(points, reach) ==
  /\ pointer.click = NoPoint
  /\ \E i \in 1..Len(pointer.touches), p \in points :
       /\ \A j \in 1..Len(pointer.touches) : p # pointer.touches[j]
       /\ \E touches \in {[pointer.touches EXCEPT ![i] = p]} :
            /\ (Len(touches) = 1 /\ engine.isDragging) => InPanRange(engine, touches[1])
            /\ \E asked \in {IF Len(touches) = 2 /\ engine.lastTouchDistance > 0
                             THEN RAdd(engine.scale,
                                       RMul(Whole(Distance(touches[1], touches[2])
                                                    - engine.lastTouchDistance),
                                            Rat(1, 100)))
                             ELSE engine.scale} :
                 /\ InReach(asked, reach)
                 /\ \E eng \in {IF Len(touches) = 1 /\ engine.isDragging
                                 THEN Pan(engine, touches[1])
                                 ELSE IF Len(touches) = 2
                                 THEN [Zoom(engine, ClampScale(asked)) EXCEPT
                                         !.lastTouchDistance =
                                           Distance(touches[1], touches[2])]
                                 ELSE engine} :
                      /\ engine' = eng
                      /\ pointer' = [pointer EXCEPT
                                       !.touches = touches,
                                       !.event = Event("touchmove", asked, Hid(eng))]
  /\ UNCHANGED engineRest

\* The elements of a sequence at the indices of a set, in their order.
RECURSIVE Pick(_, _, _)
Pick(seq, indices, i) ==
  IF i > Len(seq) THEN <<>>
  ELSE (IF i \in indices THEN <<seq[i]>> ELSE <<>>) \o Pick(seq, indices, i + 1)

\* touchend: e.changedTouches is the fingers lifted, e.touches those that stay.
TouchEnd ==
  /\ pointer.click = NoPoint
  /\ \E lifted \in (SUBSET (1..Len(pointer.touches))) \ {{}} :
       \E changedTouches \in {Pick(pointer.touches, lifted, 1)} :
         \E done \in {IF /\ Len(changedTouches) = 1
                         /\ engine.lastTouchDistance = 0
                         /\ ~Farther(changedTouches[1], engine.touchStartPos, CLICK_THRESHOLD)
                      THEN HexClick(engine, hexGrid, changedTouches[1].x, changedTouches[1].y)
                      ELSE [eng |-> engine, invoked |-> "none"]} :
           /\ engine' = [done.eng EXCEPT !.isDragging = FALSE, !.hasDragged = FALSE,
                                         !.lastTouchDistance = 0]
           /\ pointer' = [pointer EXCEPT
                            !.touches = Pick(pointer.touches,
                                             (1..Len(pointer.touches)) \ lifted, 1),
                            !.event = Event("touchend", engine.scale, done.invoked)]
  /\ UNCHANGED engineRest

\* F1: window.toggleDebug
ToggleDebug ==
  /\ pointer.click = NoPoint
  /\ Handled([engine EXCEPT !.debugOverlay = OverlayToggle(@)],
             "F1", engine.scale)

\* D: window.toggleDetail
ToggleDetail ==
  /\ pointer.click = NoPoint
  /\ Handled([engine EXCEPT !.debugOverlay = OverlayToggleDetailedMode(@)],
             "D", engine.scale)

\* R: window.resetViewport
ResetViewport ==
  /\ pointer.click = NoPoint
  /\ Handled(UpdateViewportTransform(
               [engine EXCEPT !.viewportPos = Point(engine.config.width \div 2,
                                                    engine.config.height \div 2),
                              !.scale = Whole(1)]),
             "R", Whole(1))

\* The page with every cell of the grid grass: the terrain plays no part in the
\* handling of the pointers.
Meadow == [i \in 1..(GridWidth * GridHeight) |-> TerrainKeys[1]]
InitInput == Init /\ hexGrid = HexGrid(HexSize, GridWidth, GridHeight, Meadow)

\* The zooms the specification of the inspector follows, and those the specification
\* of the zoom follows (every one: no scale is 3 away from 1).
InspectorReach == 1
ZoomReach == 30

\* The mouse and the fingers are at the centre of the cell (0, 0) or at a point of
\* the cell (1, 0), as the cells lie after initialize; a pinch has a third point.
TapPoints == PointsAt({0, 50})
PinchPoints == PointsAt({0, 50, 100})

\* The inspector: the mouse, the fingers, the wheel and the keys of the debug overlay.
NextInput ==
  \/ Wheel(InspectorReach)
  \/ MouseDown(TapPoints)
  \/ MouseMove(TapPoints)
  \/ MouseUp(TapPoints)
  \/ MouseLeave
  \/ Click
  \/ TouchStart(TapPoints)
  \/ TouchMove(TapPoints, InspectorReach)
  \/ TouchEnd
  \/ ToggleDebug
  \/ ToggleDetail

SpecInput == InitInput /\ [][NextInput]_vars

\* The zoom: the wheel, the pinch and the reset of the viewport.
NextZoom ==
  \/ Wheel(ZoomReach)
  \/ TouchStart(PinchPoints)
  \/ TouchMove(PinchPoints, ZoomReach)
  \/ TouchEnd
  \/ ResetViewport

SpecZoom == InitInput /\ [][NextZoom]_vars

InRange(scale) == ~RLess(scale, MinScale) /\ ~RLess(MaxScale, scale)

\* C23: over wheel events, pinch movements and resets of the viewport, the scale of
\* the engine and the scale of the viewport, which captureState reads, stay within
\* [minScale, maxScale] = [0.5, 3].
ZoomStaysInBounds ==
  /\ InRange(engine.scale)
  /\ InRange(engine.viewport.scale)
  /\ MinScale = Rat(1, 2) /\ MaxScale = Whole(3)

\* A pinch has asked for a scale above maxScale and the scale is maxScale.
ZoomStaysInBoundsWitness ==
  /\ pointer.event.type = "touchmove"
  /\ RLess(MaxScale, pointer.event.asked)
  /\ engine.scale = MaxScale /\ engine.viewport.scale = MaxScale

InspectorOpen == engine.inspectedHex # Null
TooltipShown == engine.tooltipManager.visible

\* C24: whenever the tooltip of the inspector is visible, or a hex is inspected, the
\* debug overlay is visible.
InspectorNeedsDebugOverlay ==
  (TooltipShown \/ InspectorOpen) => engine.debugOverlay.visible

\* C27: a mousemove or a one-finger touchmove during a drag, a wheel event and the
\* start of a pinch leave no hex inspected and the tooltip hidden.
DragHidesTooltip ==
  LET type == pointer.event.type
      dragging == \/ type = "mousemove" /\ engine.isDragging
                  \/ type = "touchmove" /\ Len(pointer.touches) = 1 /\ engine.isDragging
                  \/ type = "wheel"
                  \/ type = "touchstart" /\ Len(pointer.touches) = 2
  IN  dragging => ~InspectorOpen /\ ~TooltipShown

\* A drag of the mouse has closed the inspector that was open.
DragHidesTooltipWitness ==
  /\ pointer.event.type = "mousemove"
  /\ engine.isDragging /\ engine.hasDragged
  /\ pointer.event.invoked = "hide"
  /\ ~InspectorOpen /\ ~TooltipShown

\* C30: the touchend of a gesture in which two fingers were down together calls
\* neither toggleHexInspector nor onHexClick.
PinchIsNoTap ==
  (pointer.event.type = "touchend" /\ pointer.multi)
    => pointer.event.invoked \notin {"toggleHexInspector", "onHexClick"}

(***************************************************************************)
(* The entity store and the render system: the operations of the           *)
(* EntityManager in any order, and RenderSystem.update() between them as   *)
(* the ticker calls it.                                                    *)
(***************************************************************************)
\* Entities are created while nextEntityId is at most this, and sprites while
\* fewer than MaxSprites have been made.
MaxStoreId == 2
MaxSprites == 3

\* addComponent(entityId, component): throws when the entity does not exist; the
\* component takes the place of one of its type.
AddComponent(em, entityId, component) ==
  IF ~MapHas(em.entities, entityId)
  THEN [threw |-> TRUE, entities |-> em.entities]
  ELSE [threw |-> FALSE,
        entities |-> MapSet(em.entities, entityId,
                            MapSet(MapGet(em.entities, entityId),
                                   ComponentType(component), component))]

\* removeComponent(entityId, componentType): nothing for an entity that is not there.
RemoveComponent(em, entityId, componentType) ==
  IF ~MapHas(em.entities, entityId) THEN em.entities
  ELSE MapSet(em.entities, entityId,
              MapDelete(MapGet(em.entities, entityId), componentType))

\* renderable.sprite = sprite, on the renderable of an entity.
SetSprite(ents, entityId, sprite) ==
  MapSet(ents, entityId,
         MapSet(MapGet(ents, entityId), Str.RenderableComponent,
                [MapGet(MapGet(ents, entityId), Str.RenderableComponent)
                   EXCEPT !.sprite = sprite]))

\* update(), the forEach over the entities that have a position and a renderable: a
\* renderable without a sprite is given a new one, tagged with the entityId and
\* added to the container; the sprite is then moved to the pixel of the hex.
\* Setting x on a sprite that was destroyed either writes to the dead object or
\* throws, as the Pixi build has it: strict tells which.
RECURSIVE RenderEntities(_, _, _, _, _)
RenderEntities(results, i, ents, ren, strict) ==
  IF i > Len(results) THEN [threw |-> FALSE, entities |-> ents, render |-> ren]
  ELSE LET entityId   == results[i].entityId
           renderable == MapGet(results[i].components, Str.RenderableComponent)
           sprite     == ren.made + 1
       IN  IF renderable.sprite = 0
           THEN RenderEntities(
                  results, i + 1, SetSprite(ents, entityId, sprite),
                  [ren EXCEPT !.made = sprite,
                              !.children = Append(@, [sprite |-> sprite,
                                                      entityId |-> entityId])],
                  strict)
           ELSE IF strict /\ renderable.sprite \in ren.destroyed
                THEN [threw |-> TRUE, entities |-> ents, render |-> ren]
                ELSE RenderEntities(results, i + 1, ents, ren, strict)

\* update(), the clean-up: every child whose entityId is not among the entities
\* just rendered is removed from the container and destroyed.
RenderCleanup(ren, activeEntityIds) ==
  LET spritesToRemove == {j \in 1..Len(ren.children) :
                            ren.children[j].entityId \notin activeEntityIds}
  IN  [ren EXCEPT !.children = SelectSeq(@, LAMBDA s : s.entityId \in activeEntityIds),
                  !.destroyed = @ \cup {ren.children[j].sprite : j \in spritesToRemove}]

\* RenderSystem.update()
RenderSystemUpdate(ents, ren, strict) ==
  LET results == Query(ents, {Str.PositionComponent, Str.RenderableComponent}, 1)
      done    == RenderEntities(results, 1, ents, ren, strict)
  IN  IF done.threw THEN done
      ELSE [done EXCEPT !.render =
              [RenderCleanup(done.render, {results[i].entityId : i \in 1..Len(results)})
                 EXCEPT !.updated = TRUE]]

\* The components the store is given.
StoreComponents ==
  {PositionComponent(Num(1), Num(1)),
   RenderableComponent(Num(16711680), JStr(Str.circle))}

\* The payloads deserialize is given: what serialize() returned for no entity, for
\* one unit and for two, and the payload of two whose second record has lost its
\* components.
OneUnit == CreateEntity(ClearEntities,
                        <<PositionComponent(Num(1), Num(1)),
                          RenderableComponent(Num(16711680), JStr(Str.circle))>>)
UnitPair == CreateEntity(OneUnit,
                        <<PositionComponent(Num(1), Num(1)),
                          RenderableComponent(Num(16711680), JStr(Str.circle))>>)
StorePayloads ==
  {Arr(<<>>),
   SerializeEntities(OneUnit.entities),
   SerializeEntities(UnitPair.entities),
   Arr(<<SerializeEntities(OneUnit.entities).a[1],
         Obj(<<Str.entityId>>, <<Num(2)>>)>>)}

storeRest == <<hexGrid, stateHistory, textarea, captured, last, ecsLog, calc, saves,
               engine, pointer, heap, held>>

\* The store has changed since update() last returned.
Stale == [render EXCEPT !.updated = FALSE]

StoreCreateEntity ==
  /\ nextEntityId <= MaxStoreId
  /\ \E components \in ComponentArrays :
       \E em \in {CreateEntity(EntityManager, components)} :
         /\ entities' = em.entities
         /\ nextEntityId' = em.nextEntityId
  /\ render' = Stale
  /\ UNCHANGED storeRest

StoreDestroyEntity ==
  /\ \E entityId \in 1..MaxStoreId :
       entities' = DestroyEntity(EntityManager, entityId).entities
  /\ render' = Stale
  /\ UNCHANGED <<nextEntityId, storeRest>>

StoreAddComponent ==
  /\ \E entityId \in 1..MaxStoreId, component \in StoreComponents :
       entities' = AddComponent(EntityManager, entityId, component).entities
  /\ render' = Stale
  /\ UNCHANGED <<nextEntityId, storeRest>>

StoreRemoveComponent ==
  /\ \E entityId \in 1..MaxStoreId, componentType \in ComponentRegistry :
       entities' = RemoveComponent(EntityManager, entityId, componentType)
  /\ render' = Stale
  /\ UNCHANGED <<nextEntityId, storeRest>>

StoreClear ==
  /\ entities' = ClearEntities.entities
  /\ nextEntityId' = ClearEntities.nextEntityId
  /\ render' = Stale
  /\ UNCHANGED storeRest

StoreDeserialize ==
  /\ \E serialized \in StorePayloads :
       \E done \in {DeserializeEntities(EntityManager, serialized)} :
         /\ entities' = done.entities
         /\ nextEntityId' = done.nextEntityId
  /\ render' = Stale
  /\ UNCHANGED storeRest

\* A tick: HexEngine.update calls renderSystem.update().
RenderUpdate ==
  /\ \E strict \in BOOLEAN :
       \E done \in {RenderSystemUpdate(entities, render, strict)} :
         /\ done.render.made <= MaxSprites
         /\ entities' = done.entities
         /\ render' = done.render
  /\ UNCHANGED <<nextEntityId, storeRest>>

NextStore ==
  \/ StoreCreateEntity
  \/ StoreDestroyEntity
  \/ StoreAddComponent
  \/ StoreRemoveComponent
  \/ StoreClear
  \/ StoreDeserialize
  \/ RenderUpdate

SpecStore == Init /\ [][NextStore]_vars

\* C28: nextEntityId is greater than the id of every entity in the store, so that
\* createEntity never stores an entity under an id the store holds.
NextIdAboveEveryId ==
  \A i \in 1..Len(entities) : entities[i].key < nextEntityId

\* The sprites of the container that carry the entityId.
SpritesOf(entityId) ==
  {j \in 1..Len(render.children) : render.children[j].entityId = entityId}

\* C26: when update() has returned, the container holds one sprite, the one its
\* renderable refers to, for each entity that has a position and a renderable, and
\* no other sprite.
OneSpritePerEntity ==
  render.updated =>
    LET rendered == Query(entities, {Str.PositionComponent, Str.RenderableComponent}, 1)
        live     == {rendered[i].entityId : i \in 1..Len(rendered)}
    IN  /\ \A j \in 1..Len(render.children) : render.children[j].entityId \in live
        /\ \A i \in 1..Len(rendered) :
             \E j \in 1..Len(render.children) :
               /\ SpritesOf(rendered[i].entityId) = {j}
               /\ render.children[j].sprite =
                    MapGet(rendered[i].components, Str.RenderableComponent).sprite

(***************************************************************************)
(* The performance test of the developer panel.                            *)
(***************************************************************************)
\* The hex counts of the test buttons.
PerfCounts == {100, 500, 1000}

\* Math.ceil(Math.sqrt(hexCount))
CeilSqrt(n) == CHOOSE d \in 0..n : d * d >= n /\ (d = 0 \/ (d - 1) * (d - 1) < n)

\* new HexGrid(config, themeManager): the constructor calls
\* this.themeManager.getTerrain(), which throws when no theme manager was given.
NewHexGrid(size, width, height, themeManager, terrainOf) ==
  IF themeManager = "undefined" THEN [threw |-> TRUE, grid |-> <<>>]
  ELSE [threw |-> FALSE, grid |-> HexGrid(size, width, height, terrainOf)]

\* window.runPerfTest(hexCount): the configured width and height are set to the
\* size of the test grid, the test grid is built, with no theme manager, and put
\* in place of the engine's grid and of the viewport's children; after the
\* measurement the configured width and height are set back.  An exception ends
\* the function where it is thrown.
RunPerfTest ==
  /\ pointer.click = NoPoint
  /\ \E hexCount \in PerfCounts :
       \E gridSize \in {CeilSqrt(hexCount)} :
         \E built \in {NewHexGrid(engine.config.hexSize, gridSize, gridSize, "undefined",
                                  [i \in 1..(gridSize * gridSize) |-> TerrainKeys[1]])} :
           IF built.threw
           THEN /\ engine' = [engine EXCEPT !.config.gridWidth = gridSize,
                                            !.config.gridHeight = gridSize]
                /\ hexGrid' = hexGrid
           ELSE /\ engine' = [engine EXCEPT
                                !.viewport.children = <<"hexGrid.container">>]
                /\ hexGrid' = built.grid
  /\ pointer' = [pointer EXCEPT !.event = Event("runPerfTest", engine.scale, "none")]
  /\ UNCHANGED <<entities, nextEntityId, stateHistory, textarea, captured, last,
                 ecsLog, calc, saves, render, heap, held>>

\* The test between zooms, resets and toggles of the debug overlay.
NextPerf ==
  \/ RunPerfTest
  \/ Wheel(ZoomReach)
  \/ ResetViewport
  \/ ToggleDebug

SpecPerf == InitInput /\ [][NextPerf]_vars

\* C25: runPerfTest leaves the engine's grid, the configured gridWidth and
\* gridHeight and the children of the viewport as they were before it.
PerfTestIsTemporary ==
  [][RunPerfTest =>
       /\ hexGrid' = hexGrid
       /\ engine'.config = engine.config
       /\ engine'.viewport.children = engine.viewport.children]_vars

(***************************************************************************)
(* A snapshot kept while the engine lives on.  Component objects have      *)
(* addresses here: heap[a] is the object at address a as it is now, in the *)
(* store or out of it.                                                     *)
(***************************************************************************)
\* Components are made while the heap holds at most this many, and entities while
\* nextEntityId is at most MaxKept.
MaxObjects == 2
MaxKept == 1

\* The components that new has just made (addr 0) are given the next addresses.
RECURSIVE Placed(_, _, _, _)
Placed(ents, objects, i, j) ==
  IF i > Len(ents) \/ Len(objects) < 0 THEN [entities |-> ents, heap |-> objects]
  ELSE IF j > Len(ents[i].val) THEN Placed(ents, objects, i + 1, 1)
  ELSE IF ents[i].val[j].val.addr # 0 THEN Placed(ents, objects, i, j + 1)
  ELSE LET placed == [ents[i].val[j].val EXCEPT !.addr = Len(objects) + 1]
       IN  Placed([ents EXCEPT ![i].val[j].val = placed], Append(objects, placed), i, j + 1)

\* What a snapshot reads as now: an object that is a live component has the fields
\* the component has now.
RECURSIVE Resolve(_, _)
Resolve(v, objects) ==
  IF v.t = "obj" /\ v.n > 0 THEN Fields(objects[v.n])
  ELSE IF v.t \in {"obj", "arr"}
       THEN [v EXCEPT !.a = [i \in 1..Len(v.a) |-> Resolve(v.a[i], objects)]]
       ELSE v

\* The live objects a snapshot holds.
RECURSIVE Aliases(_)
Aliases(v) ==
  IF v.t = "obj" /\ v.n > 0 THEN {v.n}
  ELSE IF v.t \in {"obj", "arr"} THEN UNION {Aliases(v.a[i]) : i \in 1..Len(v.a)}
       ELSE {}

\* component.q = value, component.color = value
SetField(c, value) ==
  IF c.cls = "PositionComponent" THEN [c EXCEPT !.q = value] ELSE [c EXCEPT !.color = value]

\* ThemeManager.updateTheme and HexGrid.updateTheme: the colours of the terrains the
\* configuration names are replaced, and every cell is pointed at the terrain of the
\* name it had.
UpdateTheme(eng, terrain) ==
  [eng EXCEPT !.theme = [k \in DOMAIN @ |-> IF k \in DOMAIN terrain THEN terrain[k] ELSE @[k]]]

\* The colours the theme panel gives the grass.
ThemeColors == {TerrainTypes.GRASS.color, 65280}

snapRest == <<hexGrid, stateHistory, textarea, captured, last, ecsLog, calc, saves,
              pointer, render>>

Stored(done) ==
  /\ Len(done.heap) <= MaxObjects
  /\ entities' = done.entities
  /\ heap' = done.heap

SnapCreateEntity ==
  /\ nextEntityId <= MaxKept
  /\ \E components \in ComponentArrays :
       \E em \in {CreateEntity(EntityManager, components)} :
         /\ Stored(Placed(em.entities, heap, 1, 1))
         /\ nextEntityId' = em.nextEntityId
  /\ UNCHANGED <<engine, held, snapRest>>

SnapDestroyEntity ==
  /\ \E entityId \in 1..MaxKept :
       entities' = DestroyEntity(EntityManager, entityId).entities
  /\ UNCHANGED <<nextEntityId, heap, engine, held, snapRest>>

SnapAddComponent ==
  /\ \E entityId \in 1..MaxKept, component \in StoreComponents :
       Stored(Placed(AddComponent(EntityManager, entityId, component).entities, heap, 1, 1))
  /\ UNCHANGED <<nextEntityId, engine, held, snapRest>>

SnapRemoveComponent ==
  /\ \E entityId \in 1..MaxKept, componentType \in ComponentRegistry :
       entities' = RemoveComponent(EntityManager, entityId, componentType)
  /\ UNCHANGED <<nextEntityId, heap, engine, held, snapRest>>

\* A field of a component of the store is assigned.
SnapSetField ==
  /\ \E i \in 1..Len(entities), value \in {Num(2)} :
       \E j \in 1..Len(entities[i].val) :
         \E component \in {SetField(entities[i].val[j].val, value)} :
           /\ entities' = [entities EXCEPT ![i].val[j].val = component]
           /\ heap' = [heap EXCEPT ![component.addr] = component]
  /\ UNCHANGED <<nextEntityId, engine, held, snapRest>>

SnapClear ==
  /\ entities' = ClearEntities.entities
  /\ nextEntityId' = ClearEntities.nextEntityId
  /\ UNCHANGED <<heap, engine, held, snapRest>>

\* deserialize(state.entities, registry) of the snapshot held, as it reads now.
SnapDeserialize ==
  /\ held.state # Undef
  /\ \E done \in {DeserializeEntities(EntityManager,
                                      Get(Resolve(held.state, heap), Str.entities))} :
       /\ Stored(Placed(done.entities, heap, 1, 1))
       /\ nextEntityId' = done.nextEntityId
  /\ UNCHANGED <<engine, held, snapRest>>

\* window.applyTheme: engine.updateTheme(themeConfig)
SnapApplyTheme ==
  /\ \E color \in ThemeColors :
       engine' = UpdateTheme(engine, [GRASS |-> color])
  /\ UNCHANGED <<entities, nextEntityId, heap, held, snapRest>>

\* captureState, its result kept.  The scale is a whole number when it is called.
SnapCapture ==
  /\ IsWhole(engine.viewport.scale)
  /\ \E state \in {CaptureState(hexGrid, entities,
                                [x |-> engine.viewport.x, y |-> engine.viewport.y,
                                 scale |-> engine.viewport.scale.n], 1)} :
       held' = [state |-> state, taken |-> Resolve(state, heap)]
  /\ UNCHANGED <<entities, nextEntityId, heap, engine, snapRest>>

NextSnapshot ==
  \/ SnapCreateEntity
  \/ SnapDestroyEntity
  \/ SnapAddComponent
  \/ SnapRemoveComponent
  \/ SnapSetField
  \/ SnapClear
  \/ SnapDeserialize
  \/ SnapApplyTheme
  \/ SnapCapture
  \/ Wheel(InspectorReach)
  \/ MouseDown(PointsAt({0}))
  \/ MouseMove(PointsAt({50}))

SpecSnapshot == InitInput /\ [][NextSnapshot]_vars

\* C21: a snapshot that captureState has returned holds no live object of the
\* engine, and reads as it did when it was returned whatever is done to the
\* engine afterwards.
SnapshotIsSelfContained ==
  held.state # Undef =>
    /\ Aliases(held.state) = {}
    /\ Resolve(held.state, heap) = held.taken

\* The snapshot holds a unit; since it was captured the unit's position has been
\* assigned, the store emptied, the theme changed and the viewport zoomed.
SnapshotIsSelfContainedWitness ==
  /\ held.state # Undef
  /\ Get(held.state, Str.entities).a # <<>>
  /\ Get(Get(held.state, Str.viewport), Str.scale) = Num(1)
  /\ \E a \in 1..Len(heap) :
       /\ heap[a].cls = "PositionComponent"
       /\ heap[a].q = Num(2)
       /\ \E i \in 1..Len(Get(held.state, Str.entities).a) :
            LET components == Get(Get(held.state, Str.entities).a[i], Str.components).a
            IN  \E j \in 1..Len(components) :
                  Get(Get(components[j], Str.data), Str.q) = Num(1)
  /\ entities = <<>>
  /\ engine.theme.GRASS # TerrainTypes.GRASS.color
  /\ engine.viewport.scale # Whole(1)

====
